---- MODULE Spec2Model ----
(***************************************************************************)
(* A model of phog: the tweet store (src/src/database.rs) and the photo    *)
(* downloader (src/src/downloader.rs, src/src/commands/download.rs).       *)
(*                                                                         *)
(* The store is modelled as the two SQLite tables.  Rust's Option<T> and   *)
(* SQL NULL are modelled as the sequences <<>> (None / NULL) and <<x>>     *)
(* (Some(x)).  The program is modelled as built for production             *)
(* (cfg!(test) is false).  The downloader is modelled one iteration of its *)
(* scheduler loops at a time, with the disk as the set of paths of the     *)
(* files in the download directory.                                        *)
(***************************************************************************)
EXTENDS Integers, Sequences, FiniteSets, TLC

(***************************************************************************)
(* Bounds of the model.                                                    *)
(***************************************************************************)
\* The longest batch of records handed to one insert.
MaxBatch == 2

\* The status ids the remote feed holds: one- and two-digit ids, so that the
\* decimal text of an id and its numeric value order differently.
Ids == 9..11

\* CURRENT_TIMESTAMP has a resolution of one second; the program never
\* compares two timestamps, so two instants tell a copied one from a new one.
Instants == 1..2

None == <<>>
Some(x) == <<x>>
IsSome(o) == o # <<>>
Unwrap(o) == o[1]

RECURSIVE SeqsUpTo(_, _)
SeqsUpTo(S, n) ==
    IF n = 0 THEN {<<>>}
    ELSE LET shorter == SeqsUpTo(S, n - 1)
         IN  shorter \cup {Append(s, x) : s \in shorter, x \in S}

(***************************************************************************)
(* Strings are sequences of tokens (a character, or a word that is never   *)
(* split).  Status ids are u64 in the program and TEXT in the tables.      *)
(***************************************************************************)
DigitChars == <<"0", "1", "2", "3", "4", "5", "6", "7", "8", "9">>

RECURSIVE u64_to_string(_)
u64_to_string(n) ==
    IF n < 10 THEN <<DigitChars[n + 1]>>
    ELSE Append(u64_to_string(n \div 10), DigitChars[(n % 10) + 1])

IsDigit(c) == \E d \in 1..10 : DigitChars[d] = c
DigitOf(c) == (CHOOSE d \in 1..10 : DigitChars[d] = c) - 1

RECURSIVE DigitsValue(_)
DigitsValue(s) ==
    IF s = <<>> THEN 0
    ELSE 10 * DigitsValue(SubSeq(s, 1, Len(s) - 1)) + DigitOf(s[Len(s)])

\* u64::from_str: Some(n) for a non-empty string of decimal digits, else None.
u64_from_str(s) ==
    IF s # <<>> /\ \A i \in 1..Len(s) : IsDigit(s[i])
    THEN Some(DigitsValue(s))
    ELSE None

(***************************************************************************)
(* What the remote feed delivers.                                          *)
(***************************************************************************)
Url(name) == <<"https://pbs.twimg.com/media/", name>>

Photo(name) == [type |-> Some("photo"), media_url_https |-> Some(Url(name))]
Video(name) == [type |-> Some("video"), media_url_https |-> Some(Url(name))]
\* A media entity without its media_url_https member: not a MediaEntity.
Broken(type) == [type |-> Some(type), media_url_https |-> None]

\* The value at $.extended_entities.media of a payload, by kind.
MediaKinds ==
    << Some(<<Photo("a.jpg"), Video("v.mp4")>>),
       None,
       Some(<<Broken("video")>>),
       Some(<<Video("v.mp4"), Video("w.mp4")>>),
       Some(<<Photo("a.jpg"), Photo("b.jpg")>>),
       Some(<<Broken("photo")>>) >>

\* The feeds of the model: in feed s the records 9, 10, ... carry the media
\* kinds s + 1, s + 2, ...
FeedShifts == {0, 3}

MediaOf(shift, id) == MediaKinds[((id - 9 + shift) % Len(MediaKinds)) + 1]

UserOf(id) ==
    IF id % 2 = 1
    THEN [id |-> 1, screen_name |-> <<"alice">>]
    ELSE [id |-> 2, screen_name |-> <<"bob">>]

\* The JSON payload of a tweet, reduced to the members the program reads.
Payload(id, user, media) ==
    [ id_str |-> u64_to_string(id),
      user   |-> [id_str |-> u64_to_string(user.id), screen_name |-> user.screen_name],
      media  |-> media ]

\* egg_mode_ext::Tweet: the decoded tweet (id, user) and its raw JSON.
Tweet(shift, id) ==
    [ id |-> id, user |-> Some(UserOf(id)),
      json |-> Payload(id, UserOf(id), MediaOf(shift, id)) ]

\* The id sequences of the batches; a batch may repeat an id.
BatchIdSeqs == SeqsUpTo(Ids, MaxBatch)

BatchOf(shift, ids) == [i \in 1..Len(ids) |-> Tweet(shift, ids[i])]

BatchIds(batch) == [i \in 1..Len(batch) |-> batch[i].id]

(***************************************************************************)
(* SQLite's JSON functions and serde_json, on the media member.            *)
(***************************************************************************)
JsonNull == [kind |-> "null", items |-> <<>>]
JsonArray(items) == [kind |-> "array", items |-> items]

\* A payload whose media member is a JSON number, not an array.
JsonInteger == [kind |-> "integer", items |-> <<>>]
HasScalarMedia(content) == "media_scalar" \in DOMAIN content

\* json_extract(content, '$.extended_entities.media'): SQL NULL when the
\* member is absent, the JSON text of an array, and an SQL INTEGER for a
\* JSON number.
json_extract_media(content) ==
    IF HasScalarMedia(content) THEN Some(JsonInteger)
    ELSE IF IsSome(content.media) THEN Some(JsonArray(Unwrap(content.media))) ELSE None

\* json_quote(x): the JSON text 'null' for SQL NULL, a JSON value as it is.
json_quote(x) == IF IsSome(x) THEN Unwrap(x) ELSE JsonNull

\* IFNULL(a, b)
IFNULL(a, b) == IF IsSome(a) THEN a ELSE b

\* serde_json::from_str::<Option<Vec<MediaEntity>>>: null is Ok(None); an
\* array is Ok(Some(entities)) when every item has both members, else Err.
from_str_media(text) ==
    IF text.kind = "null" THEN [ok |-> TRUE, val |-> None]
    ELSE IF text.kind # "array" THEN [ok |-> FALSE, val |-> None]
    ELSE IF \A i \in 1..Len(text.items) :
                IsSome(text.items[i].type) /\ IsSome(text.items[i].media_url_https)
         THEN [ok |-> TRUE,
               val |-> Some([i \in 1..Len(text.items) |->
                              [ media_url_https |-> Unwrap(text.items[i].media_url_https),
                                type_ |-> Unwrap(text.items[i].type) ]])]
         ELSE [ok |-> FALSE, val |-> None]

(***************************************************************************)
(* The schema (data/schema.sql).  tweets is a sequence of rows in rowid    *)
(* order; pruned_tweets, whose rowid nothing reads, is a set of rows.      *)
(***************************************************************************)
\* The view seen_tweets: the status ids of both tables.
seen_tweets(tw, pr) ==
    {tw[i].status_id : i \in 1..Len(tw)} \cup {r.status_id : r \in pr}

\* UNIQUE (status_id) on tweets.
TweetsConflict(tw, status_id) == \E i \in 1..Len(tw) : tw[i].status_id = status_id

\* UNIQUE (status_id) on pruned_tweets.
PrunedConflict(pr, status_id) == \E r \in pr : r.status_id = status_id

\* tweets.id INTEGER PRIMARY KEY: a new row gets the largest rowid plus one.
NextRowid(tw) == IF tw = <<>> THEN 1 ELSE tw[Len(tw)].id + 1

VARIABLES
    feed,           \* which payloads the remote feed holds (a feed shift)
    tweets,         \* the table tweets, in rowid order
    pruned_tweets,  \* the table pruned_tweets
    now,            \* CURRENT_TIMESTAMP
    ret,            \* what the last store operation returned
    pc,             \* where Downloader::start is: "idle" (not running),
                    \* "single", "multi", "done" (returned Ok), "failed" (Err)
    downloader,     \* the Downloader: its two lists of photosets
    single_sets_iter, \* how many single-photo sets the iterator has yielded
    multi_set,      \* the index of the multi-photo set being processed
    handles,        \* the transfers added to the Multi and not yet removed
    files,          \* the paths of the files in the download directory
    called,         \* rowid -> how often the callback ran for the photoset
    failed,         \* the rowids of the photosets with a failed transfer
    writer,         \* a FileWriter on its own
    dropped,        \* whether that FileWriter was dropped
    calls,          \* the calls made on that FileWriter, with their results
    contents,       \* path -> how many chunks of data that FileWriter's file holds
    args,           \* FetchArgs of the record command
    remote,         \* what the remote feed holds: timelines and likes
    fetch_pc,       \* where run_fetch is: "idle", "args", "likes", "user",
                    \* "done" (Ok), "failed" (Err), "rejected" (bad arguments)
    screen_name_idx, \* the place of the current author in the list
    page,           \* the last page requested for the current author
    user_timeline,  \* the Timeline of the current author: max_id, min_id
    fetched,        \* the tweets collected for the current author
    since_id,       \* the since_id of the current author
    log,            \* requests, responses and reports of the run, in order
    txn,            \* the transaction of a connection that writes: its phase,
                    \* the statements still to run, and its rollback point
    watch           \* the clipboard watcher: the clipboard, the stop flag, the
                    \* watcher thread, the channel and the consuming loop

storeVars == <<feed, tweets, pruned_tweets, now, ret>>
dlVars == <<pc, downloader, single_sets_iter, multi_set, handles, files, called, failed>>
fwVars == <<writer, dropped, calls, contents>>
fetchVars == <<args, remote, fetch_pc, screen_name_idx, page, user_timeline, fetched,
               since_id, log>>
txVars == <<txn>>
cbVars == <<watch>>
vars == <<feed, tweets, pruned_tweets, now, ret,
          pc, downloader, single_sets_iter, multi_set, handles, files, called, failed,
          writer, dropped, calls, contents,
          args, remote, fetch_pc, screen_name_idx, page, user_timeline, fetched,
          since_id, log, txn, watch>>

\* No FileWriter is looked at on its own.
NoFileWriter ==
    /\ writer = [file |-> "Closed", dest_path |-> <<>>, io_ok |-> TRUE]
    /\ dropped = TRUE
    /\ calls = <<>>
    /\ contents = <<>>

\* No transaction is followed statement by statement.
NoTransaction ==
    txn = [ phase |-> "none", op |-> "none", batch |-> <<>>, todo |-> <<>>,
            changes |-> 0, point |-> <<>> ]

\* No clipboard is watched.
NoWatcher ==
    watch = [ clipboard |-> <<>>, text |-> <<>>, stopped |-> FALSE, thread |-> "none",
              chan |-> <<>>, sent |-> <<>>, rx |-> "none", received |-> <<>>,
              recorded |-> <<>>, copies |-> 0 ]

\* The record command is not running.
NoFetch ==
    /\ args = [likes |-> None, user |-> None, all |-> FALSE, depth |-> None]
    /\ remote = [timeline |-> <<>>, likes |-> <<>>, per_page |-> 0]
    /\ fetch_pc = "idle"
    /\ screen_name_idx = 0
    /\ page = 0
    /\ user_timeline = [max_id |-> None, min_id |-> None]
    /\ fetched = <<>>
    /\ since_id = None
    /\ log = <<>>

(***************************************************************************)
(* Connection                                                              *)
(***************************************************************************)
count_tweets(tw) == Len(tw)

\* A faulty variant: the staged ids are compared with tweets alone.
select_unseen_ignoring_pruned(tw, pr, status_ids) ==
    IF status_ids = <<>> THEN {}
    ELSE LET staged == {u64_to_string(status_ids[i]) : i \in 1..Len(status_ids)}
             unseen == staged \ seen_tweets(tw, {})
         IN  {Unwrap(u64_from_str(s)) : s \in {x \in unseen : IsSome(u64_from_str(x))}}

\* SELECT status_id FROM temp.status_ids EXCEPT SELECT status_id FROM seen_tweets
select_unseen_status_ids_from(tw, pr, status_ids) ==
    IF status_ids = <<>> THEN {}
    ELSE LET staged == {u64_to_string(status_ids[i]) : i \in 1..Len(status_ids)}
             unseen == staged \ seen_tweets(tw, pr)
         IN  {Unwrap(u64_from_str(s)) : s \in {x \in unseen : IsSome(u64_from_str(x))}}

\* A faulty variant: an ignored row is counted as a changed row.
InsertCountingIgnored(tw, tweet, in_timeline, recorded_at) ==
    IF TweetsConflict(tw, u64_to_string(tweet.id))
    THEN [tweets |-> tw, changes |-> 1]
    ELSE [tweets |-> Append(tw, [ id |-> NextRowid(tw),
                                  status_id |-> u64_to_string(tweet.id),
                                  content |-> tweet.json,
                                  in_timeline |-> in_timeline,
                                  recorded_at |-> recorded_at,
                                  photos_downloaded_at |-> None ]),
          changes |-> 1]

\* INSERT OR IGNORE INTO tweets (status_id, content, in_timeline, recorded_at):
\* the table after the statement and the number of rows changed.
InsertOrIgnoreTweet(tw, tweet, in_timeline, recorded_at) ==
    IF TweetsConflict(tw, u64_to_string(tweet.id))
    THEN [tweets |-> tw, changes |-> 0]
    ELSE [tweets |-> Append(tw, [ id |-> NextRowid(tw),
                                  status_id |-> u64_to_string(tweet.id),
                                  content |-> tweet.json,
                                  in_timeline |-> in_timeline,
                                  recorded_at |-> recorded_at,
                                  photos_downloaded_at |-> None ]),
          changes |-> 1]

RECURSIVE InsertEach(_, _, _, _, _)
InsertEach(tw, unseen, in_timeline, recorded_at, inserted) ==
    IF unseen = <<>> THEN [tweets |-> tw, inserted |-> inserted]
    ELSE LET r == InsertOrIgnoreTweet(tw, Head(unseen), in_timeline, recorded_at)
         IN  InsertEach(r.tweets, Tail(unseen), in_timeline, recorded_at,
                        inserted + r.changes)

\* A faulty variant: the batch is not filtered by the unseen ids, and only
\* the uniqueness of tweets.status_id stops a second row.
insert_tweets_unfiltered(tw, pr, batch, in_timeline, recorded_at) ==
    InsertEach(tw, batch, in_timeline, recorded_at, 0)

insert_tweets(tw, pr, batch, in_timeline, recorded_at) ==
    LET unseen_status_ids == select_unseen_status_ids_from(tw, pr, BatchIds(batch))
        take_unseen_tweets == SelectSeq(batch, LAMBDA t : t.id \in unseen_status_ids)
    IN  InsertEach(tw, take_unseen_tweets, in_timeline, recorded_at, 0)

insert_loose_tweets(tw, pr, batch, t) ==
    LET r == insert_tweets(tw, pr, batch, FALSE, t)
    IN  [tweets |-> r.tweets, pruned_tweets |-> pr, inserted |-> r.inserted]

\* UPDATE tweets SET in_timeline = 1 WHERE status_id = ?, for each tweet.
update_tweet_stmt(tw, batch) ==
    LET ids == {u64_to_string(batch[i].id) : i \in 1..Len(batch)}
    IN  [i \in 1..Len(tw) |->
            IF tw[i].status_id \in ids
            THEN [tw[i] EXCEPT !.in_timeline = TRUE]
            ELSE tw[i]]

\* A faulty variant: pruned_tweets is not updated.
update_pruned_tweet_skipped(pr, batch) == pr

\* UPDATE pruned_tweets SET in_timeline = 1 WHERE status_id = ?, for each tweet.
update_pruned_tweet_stmt(pr, batch) ==
    LET ids == {u64_to_string(batch[i].id) : i \in 1..Len(batch)}
    IN  {IF r.status_id \in ids THEN [r EXCEPT !.in_timeline = TRUE] ELSE r : r \in pr}

insert_timeline_tweets(tw, pr, batch, t) ==
    LET tw1 == update_tweet_stmt(tw, batch)
        pr1 == update_pruned_tweet_stmt(pr, batch)
        r   == insert_tweets(tw1, pr1, batch, TRUE, t)
    IN  [tweets |-> r.tweets, pruned_tweets |-> pr1, inserted |-> r.inserted]

\* The Row that prune_tweets selects from a row of tweets.
PruneRow(row) ==
    [ status_id   |-> row.status_id,
      user_id     |-> row.content.user.id_str,
      screen_name |-> row.content.user.screen_name,
      media       |-> IFNULL(json_extract_media(row.content),
                             Some(json_quote(json_extract_media(row.content)))),
      in_timeline |-> row.in_timeline,
      recorded_at |-> row.recorded_at,
      photos_downloaded_at |-> row.photos_downloaded_at ]

\* A faulty variant: a media column that does not parse counts as prunable.
is_prunable_row_lenient(row) ==
    IF ~IsSome(row.media) THEN TRUE
    ELSE LET parsed == from_str_media(Unwrap(row.media))
         IN  IF ~parsed.ok THEN TRUE
             ELSE IF ~IsSome(parsed.val) THEN TRUE
             ELSE IF \E i \in 1..Len(Unwrap(parsed.val)) :
                        Unwrap(parsed.val)[i].type_ = "photo"
                  THEN IsSome(row.photos_downloaded_at)
                  ELSE TRUE

is_prunable_row(row) ==
    IF ~IsSome(row.media) THEN TRUE
    ELSE LET parsed == from_str_media(Unwrap(row.media))
         IN  IF ~parsed.ok THEN FALSE
             ELSE IF ~IsSome(parsed.val) THEN TRUE
             ELSE IF \E i \in 1..Len(Unwrap(parsed.val)) :
                        Unwrap(parsed.val)[i].type_ = "photo"
                  THEN IsSome(row.photos_downloaded_at)
                  ELSE TRUE

\* A faulty variant: the pruned row loses its in_timeline flag.
insert_stmt_dropping_flag(pr, row, pruned_at) ==
    IF PrunedConflict(pr, row.status_id) THEN pr
    ELSE pr \cup {[ status_id   |-> row.status_id,
                    user_id     |-> row.user_id,
                    screen_name |-> row.screen_name,
                    media       |-> row.media,
                    in_timeline |-> FALSE,
                    recorded_at |-> row.recorded_at,
                    photos_downloaded_at |-> row.photos_downloaded_at,
                    pruned_at   |-> pruned_at ]}

\* INSERT OR IGNORE INTO pruned_tweets (...)
insert_stmt(pr, row, pruned_at) ==
    IF PrunedConflict(pr, row.status_id) THEN pr
    ELSE pr \cup {[ status_id   |-> row.status_id,
                    user_id     |-> row.user_id,
                    screen_name |-> row.screen_name,
                    media       |-> row.media,
                    in_timeline |-> row.in_timeline,
                    recorded_at |-> row.recorded_at,
                    photos_downloaded_at |-> row.photos_downloaded_at,
                    pruned_at   |-> pruned_at ]}

\* DELETE FROM tweets WHERE status_id = ?
delete_stmt(tw, status_id) == SelectSeq(tw, LAMBDA r : r.status_id # status_id)

\* row.get_unwrap("media") for an Option<String>: NULL and TEXT are read,
\* a column of another SQL type makes the unwrap panic (FALSE).
get_unwrap_media(row) == ~IsSome(row.media) \/ Unwrap(row.media).kind # "integer"

\* The loop over the selected rows; panicked when the mapping of a row
\* panics, which ends the process.
RECURSIVE PruneEach(_, _, _, _, _)
PruneEach(rows, tw, pr, pruned_at, pruned) ==
    IF rows = <<>>
    THEN [tweets |-> tw, pruned_tweets |-> pr, pruned |-> pruned, panicked |-> FALSE]
    ELSE LET row == PruneRow(Head(rows))
         IN  IF ~get_unwrap_media(row)
             THEN [tweets |-> tw, pruned_tweets |-> pr, pruned |-> pruned,
                   panicked |-> TRUE]
             ELSE IF is_prunable_row(row)
             THEN PruneEach(Tail(rows), delete_stmt(tw, row.status_id),
                            insert_stmt(pr, row, pruned_at), pruned_at, pruned + 1)
             ELSE PruneEach(Tail(rows), tw, pr, pruned_at, pruned)

\* prune_tweets; a panic inside the transaction ends the process without
\* COMMIT, and the tables are what they were.
prune_tweets(tw, pr, t) ==
    LET r == PruneEach(tw, tw, pr, t, 0)
    IN  IF r.panicked
        THEN [tweets |-> tw, pruned_tweets |-> pr, pruned |-> 0, panicked |-> TRUE]
        ELSE r

\* A faulty variant: the UPDATE has no WHERE clause.
set_photos_downloaded_at_everywhere(tw, rowid, t) ==
    [ tweets |-> [i \in 1..Len(tw) |-> [tw[i] EXCEPT !.photos_downloaded_at = Some(t)]],
      n |-> Len(tw) ]

\* UPDATE tweets SET photos_downloaded_at = CURRENT_TIMESTAMP WHERE rowid = ?
set_photos_downloaded_at(tw, rowid, t) ==
    [ tweets |-> [i \in 1..Len(tw) |->
                    IF tw[i].id = rowid
                    THEN [tw[i] EXCEPT !.photos_downloaded_at = Some(t)]
                    ELSE tw[i]],
      n |-> Cardinality({i \in 1..Len(tw) : tw[i].id = rowid}) ]

\* The rows of the view seen_tweets with the columns select_max_status_id
\* reads: for a row of tweets the author is the $.user.id_str of its payload.
seen_tweets_rows(tw, pr) ==
    {[ status_id   |-> tw[i].status_id,
       user_id     |-> tw[i].content.user.id_str,
       in_timeline |-> tw[i].in_timeline ] : i \in 1..Len(tw)}
    \cup {[ status_id   |-> r.status_id,
            user_id     |-> r.user_id,
            in_timeline |-> r.in_timeline ] : r \in pr}

\* u64::MAX in decimal.
U64_MAX ==
    << "1", "8", "4", "4", "6", "7", "4", "4", "0", "7",
       "3", "7", "0", "9", "5", "5", "1", "6", "1", "5" >>

\* The digits of a number without its leading zeros.
RECURSIVE StripZeros(_)
StripZeros(s) == IF Len(s) > 1 /\ s[1] = "0" THEN StripZeros(Tail(s)) ELSE s

\* Two strings of digits of the same length, compared digit by digit.
DigitsLess(a, b) ==
    \E i \in 1..Len(a) :
        /\ DigitOf(a[i]) < DigitOf(b[i])
        /\ \A j \in 1..(i - 1) : a[j] = b[j]

\* A faulty variant: the strings are compared as text.
str_lt(a, b) ==
    \/ \E i \in 1..Len(a) :
          /\ i <= Len(b)
          /\ DigitOf(a[i]) < DigitOf(b[i])
          /\ \A j \in 1..(i - 1) : a[j] = b[j]
    \/ Len(a) < Len(b) /\ SubSeq(b, 1, Len(a)) = a

\* a < b for two u64 of any size, each given by its decimal digits without
\* leading zeros: the shorter is the smaller.
u64_lt(a, b) ==
    \/ Len(a) < Len(b)
    \/ Len(a) = Len(b) /\ DigitsLess(a, b)

\* u64::from_str for a string of any length: Some(the digits of the number)
\* for a non-empty string of decimal digits that is at most u64::MAX, else
\* None.
u64_from_str_wide(s) ==
    IF s # <<>> /\ \A i \in 1..Len(s) : IsDigit(s[i])
    THEN IF u64_lt(U64_MAX, StripZeros(s)) THEN None ELSE Some(StripZeros(s))
    ELSE None

\* SELECT status_id FROM seen_tweets WHERE user_id = ? AND in_timeline = 1,
\* and of these the one that is the largest as u64.
select_max_status_id(tw, pr, user_id) ==
    LET rows  == {r.status_id : r \in {q \in seen_tweets_rows(tw, pr) :
                                          q.user_id = u64_to_string(user_id) /\ q.in_timeline}}
        keyed == {[status_id |-> s, key |-> Unwrap(u64_from_str_wide(s))] :
                     s \in {x \in rows : IsSome(u64_from_str_wide(x))}}
    IN  IF keyed = {} THEN None
        ELSE Some((CHOOSE m \in keyed :
                      \A o \in keyed : o = m \/ u64_lt(o.key, m.key)).status_id)

(***************************************************************************)
(* The store operations as steps.                                          *)
(***************************************************************************)
InitStore ==
    /\ feed \in FeedShifts
    /\ tweets = <<>>
    /\ pruned_tweets = {}
    /\ now = 1
    /\ ret = 0
    /\ pc = "idle"
    /\ downloader = [single_photo_photosets |-> <<>>, multi_photo_photosets |-> <<>>]
    /\ single_sets_iter = 0
    /\ multi_set = 1
    /\ handles = <<>>
    /\ files = {}
    /\ called = <<>>
    /\ failed = {}
    /\ NoFileWriter
    /\ NoFetch
    /\ NoTransaction
    /\ NoWatcher

InsertLooseOf(ids) ==
    LET r == insert_loose_tweets(tweets, pruned_tweets, BatchOf(feed, ids), now)
    IN  /\ tweets' = r.tweets
        /\ pruned_tweets' = r.pruned_tweets
        /\ ret' = r.inserted
        /\ UNCHANGED <<feed, now>>
        /\ UNCHANGED <<dlVars, fwVars, txVars, cbVars, fetchVars>>

InsertLoose == \E ids \in BatchIdSeqs : InsertLooseOf(ids)

InsertTimelineOf(ids) ==
    LET r == insert_timeline_tweets(tweets, pruned_tweets, BatchOf(feed, ids), now)
    IN  /\ tweets' = r.tweets
        /\ pruned_tweets' = r.pruned_tweets
        /\ ret' = r.inserted
        /\ UNCHANGED <<feed, now>>
        /\ UNCHANGED <<dlVars, fwVars, txVars, cbVars, fetchVars>>

InsertTimeline == \E ids \in BatchIdSeqs : InsertTimelineOf(ids)

\* What the store holds in ret after a command that ended in a panic.
Panicked == 0 - 2

Prune ==
    LET r == prune_tweets(tweets, pruned_tweets, now)
    IN  /\ tweets' = r.tweets
        /\ pruned_tweets' = r.pruned_tweets
        /\ ret' = IF r.panicked THEN Panicked ELSE r.pruned
        /\ UNCHANGED <<feed, now>>
        /\ UNCHANGED <<dlVars, fwVars, txVars, cbVars, fetchVars>>

\* The row identifiers mark_downloaded is called with: those a row can have,
\* and one that no row has.
Rowids == 1..(Cardinality(Ids) + 1)

MarkDownloadedOf(rowid) ==
    LET r == set_photos_downloaded_at(tweets, rowid, now)
    IN  /\ tweets' = r.tweets
        /\ ret' = r.n
        /\ UNCHANGED <<feed, pruned_tweets, now>>
        /\ UNCHANGED <<dlVars, fwVars, txVars, cbVars, fetchVars>>

MarkDownloaded == \E rowid \in Rowids : MarkDownloadedOf(rowid)

\* A second passes on the wall clock.
Tick ==
    /\ now + 1 \in Instants
    /\ now' = now + 1
    /\ UNCHANGED <<feed, tweets, pruned_tweets, ret>>
    /\ UNCHANGED <<dlVars, fwVars, txVars, cbVars, fetchVars>>

Init == InitStore

Next ==
    \/ InsertLoose
    \/ InsertTimeline
    \/ Prune
    \/ MarkDownloaded
    \/ Tick

Spec == Init /\ [][Next]_vars

(***************************************************************************)
(* The store's properties.                                                 *)
(***************************************************************************)
StatusIds(ids) == {u64_to_string(ids[i]) : i \in 1..Len(ids)}

ActiveIds == {tweets[i].status_id : i \in 1..Len(tweets)}
PrunedIds == {r.status_id : r \in pruned_tweets}
StoredIds == ActiveIds \cup PrunedIds

IdsOf(tw) == {tw[i].status_id : i \in 1..Len(tw)}

\* The in-timeline flags of the rows, of either table, that hold a status id.
FlagsIn(tw, pr, s) ==
    {tw[i].in_timeline : i \in {j \in 1..Len(tw) : tw[j].status_id = s}}
    \cup {r.in_timeline : r \in {q \in pr : q.status_id = s}}

FlagsOf(s) == FlagsIn(tweets, pruned_tweets, s)

AtMostOneRowPerId(tw, pr) ==
    /\ \A i, j \in 1..Len(tw) : tw[i].status_id = tw[j].status_id => i = j
    /\ \A r, q \in pr : r.status_id = q.status_id => r = q
    /\ \A i \in 1..Len(tw) : \A r \in pr : tw[i].status_id # r.status_id

\* C1: in every reachable state of the store, each record id is in at most
\* one of tweets and pruned_tweets, and at most once in either.
C1_IdInAtMostOneTable == AtMostOneRowPerId(tweets, pruned_tweets)

\* Every id of the feed is stored, some in each table, and the last
\* operation added nothing.
C1_Witness ==
    /\ Cardinality(StoredIds) = Cardinality(Ids)
    /\ ActiveIds # {}
    /\ PrunedIds # {}
    /\ ret = 0

\* C2: in every reachable state and for every batch, insert_loose(records)
\* adds to tweets exactly the distinct ids of the batch that neither table
\* holds, each with in_timeline = false, returns the number of rows it added,
\* and count() grows by that number; the rows that were there, and
\* pruned_tweets, are as before.
C2_InsertLooseAddsUnseen ==
    \A ids \in BatchIdSeqs :
       LET r   == insert_loose_tweets(tweets, pruned_tweets, BatchOf(feed, ids), now)
           new == StatusIds(ids) \ StoredIds
       IN  /\ IdsOf(r.tweets) = ActiveIds \cup new
           /\ r.inserted = Cardinality(new)
           /\ count_tweets(r.tweets) = count_tweets(tweets) + r.inserted
           /\ SubSeq(r.tweets, 1, Len(tweets)) = tweets
           /\ \A i \in (Len(tweets) + 1)..Len(r.tweets) :
                 /\ r.tweets[i].status_id \in new
                 /\ r.tweets[i].in_timeline = FALSE
                 /\ r.tweets[i].recorded_at = now
                 /\ ~IsSome(r.tweets[i].photos_downloaded_at)
           /\ r.pruned_tweets = pruned_tweets

\* Two loose rows are all the store holds, and the last operation returned 2.
C2_Witness ==
    /\ ret = 2
    /\ Len(tweets) = 2
    /\ pruned_tweets = {}
    /\ \A i \in 1..Len(tweets) :
          ~tweets[i].in_timeline /\ ~IsSome(tweets[i].photos_downloaded_at)

InsertInto(tw, pr, batch, timeline) ==
    IF timeline THEN insert_timeline_tweets(tw, pr, batch, now)
                ELSE insert_loose_tweets(tw, pr, batch, now)

\* C3: in every reachable state and for every batch, after insert_loose (or
\* insert_timeline) of the batch the same call with the same batch returns 0,
\* leaves the set of stored ids as it is and at most one row per id, also
\* when prune runs between the two calls.
C3_DedupIdempotent ==
    \A ids \in BatchIdSeqs : \A timeline \in BOOLEAN :
       LET b  == BatchOf(feed, ids)
           r1 == InsertInto(tweets, pruned_tweets, b, timeline)
           p  == prune_tweets(r1.tweets, r1.pruned_tweets, now)
           r2 == InsertInto(r1.tweets, r1.pruned_tweets, b, timeline)
           r3 == InsertInto(p.tweets, p.pruned_tweets, b, timeline)
       IN  /\ StatusIds(ids) \subseteq seen_tweets(r1.tweets, r1.pruned_tweets)
           /\ \A r \in {r2, r3} :
                 /\ r.inserted = 0
                 /\ seen_tweets(r.tweets, r.pruned_tweets)
                      = seen_tweets(r1.tweets, r1.pruned_tweets)
                 /\ AtMostOneRowPerId(r.tweets, r.pruned_tweets)

\* An insert found every id of its batch stored already, some of them pruned.
C3_Witness ==
    /\ ret = 0
    /\ Len(tweets) = 1
    /\ Cardinality(PrunedIds) = 2
    /\ \E r \in pruned_tweets : r.in_timeline
    /\ \E r \in pruned_tweets : ~r.in_timeline

\* C4: once the in-timeline flag of an id is true, in whichever table holds
\* the id, it is true in every later state.
C4_InTimelineMonotonic ==
    [][\A s \in {u64_to_string(n) : n \in Ids} :
          TRUE \in FlagsOf(s) => FlagsIn(tweets', pruned_tweets', s) = {TRUE}]_vars

\* An in-timeline record was pruned, another is active, and an operation
\* that added nothing followed.
C4_Witness ==
    /\ \E r \in pruned_tweets : r.in_timeline
    /\ \E i \in 1..Len(tweets) : tweets[i].in_timeline
    /\ \E i \in 1..Len(tweets) : ~tweets[i].in_timeline
    /\ ret = 0

\* C5: in every reachable state and for every batch, after
\* insert_timeline(records) every stored row whose id is supplied has
\* in_timeline = true, active or pruned, whatever it was before; unseen ids
\* are inserted with in_timeline = true; the other ids keep their flags.
C5_InsertTimelinePromotes ==
    \A ids \in BatchIdSeqs :
       LET r == insert_timeline_tweets(tweets, pruned_tweets, BatchOf(feed, ids), now)
       IN  /\ \A s \in StatusIds(ids) : FlagsIn(r.tweets, r.pruned_tweets, s) = {TRUE}
           /\ IdsOf(r.tweets) = ActiveIds \cup (StatusIds(ids) \ StoredIds)
           /\ r.inserted = Cardinality(StatusIds(ids) \ StoredIds)
           /\ {q.status_id : q \in r.pruned_tweets} = PrunedIds
           /\ \A s \in (StoredIds \ StatusIds(ids)) :
                 FlagsIn(r.tweets, r.pruned_tweets, s) = FlagsOf(s)

\* A pruned row and an active row are in-timeline while a third is loose,
\* and the last operation inserted one row.
C5_Witness ==
    /\ \E r \in pruned_tweets : r.in_timeline
    /\ \E r \in pruned_tweets : ~r.in_timeline
    /\ \E i \in 1..Len(tweets) : tweets[i].in_timeline /\ tweets[i].recorded_at = 2
    /\ ret = 1

\* The media of a payload holds an entry of type photo.
HasPhotoEntry(content) ==
    /\ IsSome(content.media)
    /\ \E i \in 1..Len(Unwrap(content.media)) :
          Unwrap(content.media)[i].type = Some("photo")

\* Every media entry of a payload has the members of a MediaEntity.
WellFormedMedia(content) ==
    \/ ~IsSome(content.media)
    \/ \A i \in 1..Len(Unwrap(content.media)) :
          /\ IsSome(Unwrap(content.media)[i].type)
          /\ IsSome(Unwrap(content.media)[i].media_url_https)

\* Prunable as the data model words it: no media, or media without a photo
\* entry, or a photo entry and a photos-downloaded timestamp.
PrunableAsWorded(row) ==
    ~HasPhotoEntry(row.content) \/ IsSome(row.photos_downloaded_at)

PrunableWellFormed(row) == WellFormedMedia(row.content) /\ PrunableAsWorded(row)

\* What prune() makes of the current state moves exactly the rows that
\* satisfy P, and a second prune() of that returns 0.
PruneMovesExactly(P(_)) ==
    LET r     == prune_tweets(tweets, pruned_tweets, now)
        moved == {i \in 1..Len(tweets) : P(tweets[i])}
    IN  /\ r.tweets = SelectSeq(tweets, LAMBDA row : ~P(row))
        /\ r.pruned = Cardinality(moved)
        /\ pruned_tweets \subseteq r.pruned_tweets
        /\ {q.status_id : q \in r.pruned_tweets}
             = PrunedIds \cup {tweets[i].status_id : i \in moved}
        /\ \A i \in moved :
              \E q \in r.pruned_tweets :
                 /\ q.status_id = tweets[i].status_id
                 /\ q.in_timeline = tweets[i].in_timeline
                 /\ q.recorded_at = tweets[i].recorded_at
                 /\ q.photos_downloaded_at = tweets[i].photos_downloaded_at
        /\ \A i \in 1..Len(tweets) :
              (HasPhotoEntry(tweets[i].content) /\ ~IsSome(tweets[i].photos_downloaded_at))
                  => \E j \in 1..Len(r.tweets) : r.tweets[j] = tweets[i]
        /\ prune_tweets(r.tweets, r.pruned_tweets, now).pruned = 0

\* C6 as stated: in every reachable state prune() moves exactly the records
\* that have no media, or media without a photo entry, or a photo entry and
\* a photos-downloaded timestamp, and returns their number; a moved record
\* keeps its id, flag and timestamps; a second prune() right after returns 0.
C6_AsStated == PruneMovesExactly(PrunableAsWorded)

\* C6, amended: the same of the records whose media descriptor is well
\* formed; a record whose media descriptor is malformed stays in tweets.
C6_PruneMovesPrunable == PruneMovesExactly(PrunableWellFormed)

\* A prune moved two records, one with its photos downloaded an instant
\* after it was recorded, and left a third, with a photo pending or with a
\* malformed media descriptor, in tweets.
C6_Witness ==
    /\ ret = 2
    /\ Len(tweets) = 1
    /\ Cardinality(pruned_tweets) = 2
    /\ \A r \in pruned_tweets : r.pruned_at = 2
    /\ \E r \in pruned_tweets :
          r.recorded_at = 1 /\ r.photos_downloaded_at = Some(2)
    /\ \E r \in pruned_tweets : ~IsSome(r.photos_downloaded_at)

(***************************************************************************)
(* The photosets to download (database.rs) and their paths.                *)
(***************************************************************************)
build_photoset(rowid, screen_name, id_str, media_json) ==
    LET parsed == from_str_media(media_json)
    IN  IF ~parsed.ok THEN [ok |-> FALSE, val |-> None]
        ELSE IF ~IsSome(parsed.val) THEN [ok |-> TRUE, val |-> None]
        ELSE LET photos == SelectSeq(Unwrap(parsed.val), LAMBDA m : m.type_ = "photo")
                 photo_urls == [i \in 1..Len(photos) |-> photos[i].media_url_https]
             IN  IF photo_urls = <<>> THEN [ok |-> TRUE, val |-> None]
                 ELSE [ok |-> TRUE,
                       val |-> Some([ rowid |-> rowid,
                                      screen_name |-> screen_name,
                                      id_str |-> id_str,
                                      photo_urls |-> photo_urls ])]

\* The photoset of a row of tweets, as select_not_downloaded_photos builds it.
PhotosetOfRow(row) ==
    build_photoset(row.id, row.content.user.screen_name, row.content.id_str,
                   json_quote(json_extract_media(row.content)))

\* A faulty variant: the rows are not filtered by photos_downloaded_at.
select_photos_of_all_rows(tw) ==
    LET built == [i \in 1..Len(tw) |-> PhotosetOfRow(tw[i])]
        some  == SelectSeq(built, LAMBDA b : IsSome(b.val))
    IN  IF \E i \in 1..Len(built) : ~built[i].ok
        THEN [ok |-> FALSE, val |-> <<>>]
        ELSE [ok |-> TRUE, val |-> [i \in 1..Len(some) |-> Unwrap(some[i].val)]]

\* Ok(photosets) of the rows WHERE photos_downloaded_at IS NULL, or Err.
select_not_downloaded_photos(tw) ==
    LET rows  == SelectSeq(tw, LAMBDA r : ~IsSome(r.photos_downloaded_at))
        built == [i \in 1..Len(rows) |-> PhotosetOfRow(rows[i])]
        some  == SelectSeq(built, LAMBDA b : IsSome(b.val))
    IN  IF \E i \in 1..Len(built) : ~built[i].ok
        THEN [ok |-> FALSE, val |-> <<>>]
        ELSE [ok |-> TRUE, val |-> [i \in 1..Len(some) |-> Unwrap(some[i].val)]]

\* "@{screen_name}-{id_str}-img{index}-{name}", name the last segment of the URL.
build_photo_path(photoset, photo_url, index) ==
    <<"@">> \o photoset.screen_name \o <<"-">> \o photoset.id_str
        \o <<"-img">> \o u64_to_string(index) \o <<"-", photo_url[Len(photo_url)]>>

make_part_path(path) == path \o <<".part">>

\* Downloader::new; of the callback, a closure that owns the connection,
\* the downloader record keeps whether its store accepts the update.
Downloader_new(photosets, on_downloaded_photoset) ==
    [ on_downloaded_photoset |-> on_downloaded_photoset,
      single_photo_photosets |-> SelectSeq(photosets, LAMBDA p : Len(p.photo_urls) = 1),
      multi_photo_photosets  |-> SelectSeq(photosets, LAMBDA p : Len(p.photo_urls) # 1) ]

(***************************************************************************)
(* FileWriter (downloader.rs).  A writer is its FileWriterFile (the state  *)
(* and the destination path) and its io_result; each operation takes the   *)
(* writer and the disk and gives both back.                                *)
(***************************************************************************)
FileWriter_new(path) == [file |-> "Unopened", dest_path |-> path, io_ok |-> TRUE]

\* A faulty variant: a closed writer opens its part file again.
FileWriter_file_reopening(w, fs, create_ok) ==
    IF w.file # "Opened"
    THEN IF create_ok
         THEN [ writer |-> [w EXCEPT !.file = "Opened"],
                files  |-> fs \cup {make_part_path(w.dest_path)},
                ok     |-> TRUE ]
         ELSE [writer |-> w, files |-> fs, ok |-> FALSE]
    ELSE [writer |-> w, files |-> fs, ok |-> TRUE]

\* FileWriter::file: the part file, created on first use; create_ok tells
\* whether File::create succeeds.
FileWriter_file(w, fs, create_ok) ==
    IF w.file = "Unopened"
    THEN IF create_ok
         THEN [ writer |-> [w EXCEPT !.file = "Opened"],
                files  |-> fs \cup {make_part_path(w.dest_path)},
                ok     |-> TRUE ]
         ELSE [writer |-> w, files |-> fs, ok |-> FALSE]
    ELSE [writer |-> w, files |-> fs, ok |-> w.file = "Opened"]

\* FileWriter::write_to_file: Some(n) or None; write_ok tells whether
\* File::write succeeds.
write_to_file(w, fs, create_ok, write_ok) ==
    IF ~w.io_ok THEN [writer |-> w, files |-> fs, some |-> FALSE]
    ELSE LET f == FileWriter_file(w, fs, create_ok)
         IN  IF f.ok /\ write_ok
             THEN [writer |-> f.writer, files |-> f.files, some |-> TRUE]
             ELSE [ writer |-> [f.writer EXCEPT !.io_ok = FALSE],
                    files  |-> f.files,
                    some   |-> FALSE ]

\* Handler::write: the whole length when the data was written, another
\* number, which makes curl fail the transfer, when it was not.
Handler_write(w, fs, create_ok, write_ok) ==
    LET r == write_to_file(w, fs, create_ok, write_ok)
    IN  [writer |-> r.writer, files |-> r.files, accepted |-> r.some]

\* A faulty variant: finish fails on a writer that never opened its file.
finish_failing_unopened(w, fs, rename_ok) ==
    IF ~w.io_ok THEN [writer |-> w, files |-> fs, ok |-> FALSE]
    ELSE IF w.file = "Opened"
    THEN IF rename_ok
         THEN [ writer |-> [w EXCEPT !.file = "Closed"],
                files  |-> (fs \ {make_part_path(w.dest_path)}) \cup {w.dest_path},
                ok     |-> TRUE ]
         ELSE [writer |-> [w EXCEPT !.file = "Closed"], files |-> fs, ok |-> FALSE]
    ELSE [writer |-> [w EXCEPT !.file = "Closed"], files |-> fs, ok |-> w.file = "Closed"]

\* FileWriter::finish; rename_ok tells whether fs::rename succeeds.
finish(w, fs, rename_ok) ==
    IF ~w.io_ok THEN [writer |-> w, files |-> fs, ok |-> FALSE]
    ELSE IF w.file = "Opened"
    THEN IF rename_ok
         THEN [ writer |-> [w EXCEPT !.file = "Closed"],
                files  |-> (fs \ {make_part_path(w.dest_path)}) \cup {w.dest_path},
                ok     |-> TRUE ]
         ELSE [writer |-> [w EXCEPT !.file = "Closed"], files |-> fs, ok |-> FALSE]
    ELSE [writer |-> [w EXCEPT !.file = "Closed"], files |-> fs, ok |-> TRUE]

\* A faulty variant: the part file is left where it is.
discard_part_keeping(w, fs) ==
    [writer |-> [w EXCEPT !.file = "Closed"], files |-> fs]

\* FileWriter::discard_part; fs::remove_file of a part file that this
\* writer created succeeds.
discard_part(w, fs) ==
    [ writer |-> [w EXCEPT !.file = "Closed"],
      files  |-> IF w.file = "Opened" THEN fs \ {make_part_path(w.dest_path)} ELSE fs ]

\* Drop for FileWriter: the disk after the writer is dropped.
FileWriter_drop(w, fs) == discard_part(w, fs).files

(***************************************************************************)
(* Downloader (downloader.rs) and its callback (commands/download.rs).     *)
(* A handle is a transfer added to the Multi: the photoset it belongs to,  *)
(* its FileWriter, and whether the transfer is still in progress.          *)
(***************************************************************************)
MAX_CONCURRENCY == 4

Min(a, b) == IF a < b THEN a ELSE b

\* What curl does with one transfer during one Multi::perform: nothing; it
\* hands data to the write callback, where creating the part file or
\* writing to it may fail; or the transfer ends, well or with an error.
\* Further data for a part file that is open changes nothing and is left out.
Events == {"idle", "data", "create_fail", "write_fail", "done_ok", "done_err"}

\* At most this many transfers make progress during one perform.
MaxEventsPerPerform == 2

EventsOf(h) ==
    IF ~h.running THEN {}
    ELSE IF h.writer.file = "Unopened" THEN Events \ {"idle"}
    ELSE Events \ {"idle", "data", "create_fail"}

\* The transfers that may make progress together during one perform.
Progressing(hs) ==
    {S \in SUBSET {i \in 1..Len(hs) : hs[i].running} :
        Cardinality(S) <= MaxEventsPerPerform}

\* What each of the transfers of S may do; the others are idle.
EventChoices(hs, S) ==
    {[i \in 1..Len(hs) |-> IF i \in S THEN e[i] ELSE "idle"] :
        e \in {x \in [S -> Events \ {"idle"}] : \A i \in S : x[i] \in EventsOf(hs[i])}}

\* The transfer of one handle during perform: the handle and the disk
\* afterwards, and the result curl reports for it ("none" while it runs).
Transfer(h, fs, e) ==
    IF e = "idle" THEN [handle |-> h, files |-> fs, result |-> "none"]
    ELSE IF e \in {"data", "create_fail", "write_fail"}
    THEN LET r == Handler_write(h.writer, fs, e # "create_fail", e = "data")
         IN  [ handle |-> [h EXCEPT !.writer = r.writer, !.running = r.accepted],
               files  |-> r.files,
               result |-> IF r.accepted THEN "none" ELSE "err" ]
    ELSE [ handle |-> [h EXCEPT !.running = FALSE],
           files  |-> fs,
           result |-> IF e = "done_ok" THEN "ok" ELSE "err" ]

\* Multi::perform on the handles from the i-th on.
RECURSIVE perform(_, _, _, _)
perform(hs, fs, ev, i) ==
    IF i > Len(hs) THEN [handles |-> <<>>, files |-> fs, results |-> <<>>]
    ELSE LET t    == Transfer(hs[i], fs, ev[i])
             rest == perform(hs, t.files, ev, i + 1)
         IN  [ handles |-> <<t.handle>> \o rest.handles,
               files   |-> rest.files,
               results |-> <<t.result>> \o rest.results ]

\* The handles whose part file finish() would rename.
Finishing(hs, results) ==
    {i \in 1..Len(hs) : results[i] = "ok" /\ hs[i].writer.file = "Opened"}

\* The callback of commands/download.rs: it marks the row as downloaded, or
\* warns that it could not when the store rejects the update.
on_downloaded_photoset(photoset, w, t) ==
    IF ~downloader.on_downloaded_photoset.db_writable
    THEN [w EXCEPT !.called = [@ EXCEPT ![photoset.rowid] = @ + 1]]
    ELSE [w EXCEPT !.tweets = set_photos_downloaded_at(w.tweets, photoset.rowid, t).tweets,
                   !.called = [@ EXCEPT ![photoset.rowid] = @ + 1]]

\* A faulty variant: the result of the transfer is not looked at.
single_message_unchecked(h, result, rename_ok, w, t) ==
    LET f == finish(h.writer, w.files, rename_ok)
    IN  IF f.ok
        THEN on_downloaded_photoset(h.photoset,
                 [w EXCEPT !.files = FileWriter_drop(f.writer, f.files)], t)
        ELSE [w EXCEPT !.files = FileWriter_drop(f.writer, f.files)]

\* The message of a finished single-photo transfer: finish and call back,
\* or log the failure; then the handle is removed and dropped.
single_message(h, result, rename_ok, w, t) ==
    IF result = "ok"
    THEN LET f == finish(h.writer, w.files, rename_ok)
         IN  IF f.ok
             THEN on_downloaded_photoset(h.photoset,
                      [w EXCEPT !.files = FileWriter_drop(f.writer, f.files)], t)
             ELSE [w EXCEPT !.files = FileWriter_drop(f.writer, f.files)]
    ELSE [w EXCEPT !.failed = @ \cup {h.photoset.rowid},
                   !.files = FileWriter_drop(h.writer, @)]

\* Multi::messages of the single-photo loop, from the i-th handle on; rn
\* holds the handles whose rename fails.
RECURSIVE single_messages(_, _, _, _, _, _)
single_messages(hs, results, rn, i, w, t) ==
    IF i > Len(hs) THEN w
    ELSE IF results[i] = "none"
    THEN single_messages(hs, results, rn, i + 1,
                         [w EXCEPT !.handles = Append(@, hs[i])], t)
    ELSE single_messages(hs, results, rn, i + 1,
                         single_message(hs[i], results[i], i \notin rn, w, t), t)

\* A faulty variant: every queued set is added, however many are in flight.
add_jobs_unbounded(hs, iter, sets) ==
    LET k == Len(sets) - iter
    IN  [ handles |-> hs \o [j \in 1..k |->
                        [ photoset |-> sets[iter + j],
                          writer   |-> FileWriter_new(
                              build_photo_path(sets[iter + j],
                                               sets[iter + j].photo_urls[1], 1)),
                          running  |-> TRUE ]],
          iter |-> iter + k ]

\* add_jobs: fill the Multi up to MAX_CONCURRENCY from the iterator.
add_jobs(hs, iter, sets) ==
    LET k == Min(IF Len(hs) > MAX_CONCURRENCY THEN 0 ELSE MAX_CONCURRENCY - Len(hs),
                 Len(sets) - iter)
    IN  [ handles |-> hs \o [j \in 1..k |->
                        [ photoset |-> sets[iter + j],
                          writer   |-> FileWriter_new(
                              build_photo_path(sets[iter + j],
                                               sets[iter + j].photo_urls[1], 1)),
                          running  |-> TRUE ]],
          iter |-> iter + k ]

\* A faulty variant: only the transfer of the first photo of the set is added.
multi_add_first_only(set) ==
    [j \in 1..1 |->
        [ photoset |-> set,
          writer   |-> FileWriter_new(build_photo_path(set, set.photo_urls[j], j)),
          running  |-> TRUE ]]

\* The handles of a multi-photo set, one for each photo URL.
multi_add(set) ==
    [j \in 1..Len(set.photo_urls) |->
        [ photoset |-> set,
          writer   |-> FileWriter_new(build_photo_path(set, set.photo_urls[j], j)),
          running  |-> TRUE ]]

\* The disk after every handle from the i-th on is dropped.
RECURSIVE DropAll(_, _, _)
DropAll(hs, fs, i) ==
    IF i > Len(hs) THEN fs
    ELSE DropAll(hs, FileWriter_drop(hs[i].writer, fs), i + 1)

\* The finalization of a multi-photo set, from the i-th handle on: finish
\* and drop each handle in turn.
RECURSIVE multi_finalize(_, _, _, _)
multi_finalize(hs, rn, i, fs) ==
    IF i > Len(hs) THEN [files |-> fs, all_finish_succeeds |-> TRUE]
    ELSE LET f    == finish(hs[i].writer, fs, i \notin rn)
             rest == multi_finalize(hs, rn, i + 1, FileWriter_drop(f.writer, f.files))
         IN  [ files |-> rest.files,
               all_finish_succeeds |-> f.ok /\ rest.all_finish_succeeds ]

(***************************************************************************)
(* A run of the download command, from Downloader::start on.               *)
(***************************************************************************)
\* The records the store holds when the command starts: five with one photo
\* and one without photos; or one with one photo, two with two photos and
\* one without media.
DLBatches == {<<9, 15, 21, 27, 33, 12>>, <<9, 13, 19, 10>>}

InitDLOf(writable) ==
    \E ids \in DLBatches : \E db_writable \in writable :
       LET r         == insert_timeline_tweets(<<>>, {}, BatchOf(0, ids), 1)
           photosets == select_not_downloaded_photos(r.tweets).val
       IN  /\ feed = 0
           /\ tweets = r.tweets
           /\ pruned_tweets = {}
           /\ now = 2
           /\ ret = r.inserted
           /\ pc = "single"
           /\ downloader = Downloader_new(photosets, [db_writable |-> db_writable])
           /\ single_sets_iter = 0
           /\ multi_set = 1
           /\ handles = <<>>
           /\ files = {}
           /\ called = [rowid \in {photosets[i].rowid : i \in 1..Len(photosets)} |-> 0]
           /\ failed = {}
           /\ NoFileWriter
           /\ NoFetch
           /\ NoTransaction
           /\ NoWatcher

\* A run of the download command on a store that takes its updates.
InitDL == InitDLOf({TRUE})

\* One iteration of the loop of download_single_photo_photosets.
SingleIteration ==
    /\ pc = "single"
    /\ LET a == add_jobs(handles, single_sets_iter, downloader.single_photo_photosets)
       IN  \E S \in Progressing(a.handles) : \E ev \in EventChoices(a.handles, S) :
              LET p == perform(a.handles, files, ev, 1)
              IN  \E rn \in SUBSET Finishing(p.handles, p.results) :
                     LET w == single_messages(p.handles, p.results, rn, 1,
                                  [ handles |-> <<>>, files |-> p.files, tweets |-> tweets,
                                    called |-> called, failed |-> failed ], now)
                         transfers_in_progress ==
                             Cardinality({i \in 1..Len(p.handles) : p.handles[i].running})
                     IN  /\ handles' = w.handles
                         /\ files' = w.files
                         /\ tweets' = w.tweets
                         /\ called' = w.called
                         /\ failed' = w.failed
                         /\ single_sets_iter' = a.iter
                         /\ pc' = IF /\ transfers_in_progress = 0
                                     /\ a.iter = Len(downloader.single_photo_photosets)
                                  THEN IF downloader.multi_photo_photosets = <<>>
                                       THEN "done" ELSE "multi"
                                  ELSE "single"
    /\ UNCHANGED <<feed, pruned_tweets, now, ret, downloader, multi_set>>
    /\ UNCHANGED <<fwVars, txVars, cbVars, fetchVars>>

\* The multi-photo set after multi_set, or the end of the run.
NextMultiSet ==
    /\ multi_set' = multi_set + 1
    /\ handles' = <<>>
    /\ pc' = IF multi_set + 1 > Len(downloader.multi_photo_photosets)
             THEN "done" ELSE "multi"

\* One iteration of the inner loop of download_multi_photo_photosets; the
\* first iteration for a set comes with the adding of its transfers, the
\* last with the abort or the finalization of the set.
MultiIteration ==
    /\ pc = "multi"
    /\ LET set == downloader.multi_photo_photosets[multi_set]
           hs  == IF handles = <<>> THEN multi_add(set) ELSE handles
       IN  \E S \in Progressing(hs) : \E ev \in EventChoices(hs, S) :
              LET p == perform(hs, files, ev, 1)
                  any_transfer_failed == \E i \in 1..Len(hs) : p.results[i] = "err"
                  transfers_in_progress ==
                      Cardinality({i \in 1..Len(hs) : p.handles[i].running})
              IN  IF any_transfer_failed
                  THEN /\ files' = DropAll(p.handles, p.files, 1)
                       /\ failed' = failed \cup {set.rowid}
                       /\ NextMultiSet
                       /\ UNCHANGED <<tweets, called>>
                  ELSE IF transfers_in_progress = 0
                  THEN \E rn \in SUBSET {i \in 1..Len(hs) : p.handles[i].writer.file = "Opened"} :
                          LET f == multi_finalize(p.handles, rn, 1, p.files)
                              w == [ files |-> f.files, tweets |-> tweets,
                                     called |-> called, failed |-> failed ]
                              c == IF f.all_finish_succeeds
                                   THEN on_downloaded_photoset(set, w, now) ELSE w
                          IN  /\ files' = c.files
                              /\ tweets' = c.tweets
                              /\ called' = c.called
                              /\ NextMultiSet
                              /\ UNCHANGED failed
                  ELSE /\ handles' = p.handles
                       /\ files' = p.files
                       /\ UNCHANGED <<tweets, called, failed, multi_set, pc>>
    /\ UNCHANGED <<feed, pruned_tweets, now, ret, downloader, single_sets_iter>>
    /\ UNCHANGED <<fwVars, txVars, cbVars, fetchVars>>

\* Adding a transfer, Multi::perform or Multi::wait returns an error: start
\* returns it, and the handles are dropped.
LibraryError ==
    /\ pc \in {"single", "multi"}
    /\ pc' = "failed"
    /\ handles' = <<>>
    /\ files' = DropAll(handles, files, 1)
    /\ UNCHANGED <<feed, tweets, pruned_tweets, now, ret, downloader,
                   single_sets_iter, multi_set, called, failed>>
    /\ UNCHANGED <<fwVars, txVars, cbVars, fetchVars>>

NextDL ==
    \/ SingleIteration
    \/ MultiIteration
    \/ LibraryError

SpecDL == InitDL /\ [][NextDL]_vars

(***************************************************************************)
(* The downloader's properties.                                            *)
(***************************************************************************)
SingleSets == downloader.single_photo_photosets
MultiSets == downloader.multi_photo_photosets

Range(seq) == {seq[i] : i \in 1..Len(seq)}

AllSets == Range(SingleSets) \cup Range(MultiSets)

DestPaths(set) ==
    {build_photo_path(set, set.photo_urls[j], j) : j \in 1..Len(set.photo_urls)}

PartPaths(set) == {make_part_path(p) : p \in DestPaths(set)}

\* The photos-downloaded timestamp of the row of a photoset.
TimestampOf(set) ==
    tweets[CHOOSE i \in 1..Len(tweets) : tweets[i].id = set.rowid].photos_downloaded_at

\* The processing of the k-th multi-photo set has ended.
MultiProcessed(k) == multi_set > k

\* The k-th single-photo set was taken from the queue and its handle removed.
SingleProcessed(k) ==
    /\ k <= single_sets_iter
    /\ \A i \in 1..Len(handles) : handles[i].photoset # SingleSets[k]

\* C7 as stated: whenever the callback ran for a photoset, or its row has a
\* photos-downloaded timestamp, a destination file exists for every photo
\* URL of the photoset, whatever the transfers did.
C7_CallbackOnlyWithFiles ==
    pc # "idle" =>
        \A set \in AllSets :
            (called[set.rowid] > 0 \/ IsSome(TimestampOf(set)))
                => DestPaths(set) \subseteq files

C9_MultiAllOrNothing ==
    pc # "idle" =>
        \A k \in 1..Len(MultiSets) :
            MultiProcessed(k)
                => \/ /\ DestPaths(MultiSets[k]) \subseteq files
                      /\ called[MultiSets[k].rowid] = 1
                   \/ /\ DestPaths(MultiSets[k]) \cap files = {}
                      /\ called[MultiSets[k].rowid] = 0

\* A failed single-photo set has no callback, no file and no timestamp, and
\* select_not_downloaded_photos returns it again.
SingleFailureLeavesNothing ==
    \A k \in 1..Len(SingleSets) :
        SingleSets[k].rowid \in failed
            => /\ called[SingleSets[k].rowid] = 0
               /\ DestPaths(SingleSets[k]) \cap files = {}
               /\ PartPaths(SingleSets[k]) \cap files = {}
               /\ ~IsSome(TimestampOf(SingleSets[k]))
               /\ SingleSets[k] \in Range(select_not_downloaded_photos(tweets).val)

\* When the single-photo loop has ended, every single-photo set was taken
\* from the queue, and each whose transfer did not fail was finished: the
\* callback ran for it, or the rename failed and left its part file.
SingleLoopDownloadedTheRest ==
    pc \in {"multi", "done"} =>
        \A k \in 1..Len(SingleSets) :
            /\ SingleProcessed(k)
            /\ SingleSets[k].rowid \notin failed
                  => \/ called[SingleSets[k].rowid] = 1
                     \/ PartPaths(SingleSets[k]) \subseteq files

MaxCalls == 4

\* The destination of the writer.
FWDestPath ==
    build_photo_path([screen_name |-> <<"alice">>, id_str |-> u64_to_string(9)],
                     Url("a.jpg"), 1)

InitFW ==
    /\ feed = 0
    /\ tweets = <<>>
    /\ pruned_tweets = {}
    /\ now = 1
    /\ ret = 0
    /\ pc = "idle"
    /\ downloader = [single_photo_photosets |-> <<>>, multi_photo_photosets |-> <<>>]
    /\ single_sets_iter = 0
    /\ multi_set = 1
    /\ handles = <<>>
    /\ files = {}
    /\ called = <<>>
    /\ failed = {}
    /\ writer = FileWriter_new(FWDestPath)
    /\ dropped = FALSE
    /\ calls = <<>>
    /\ contents = <<>>
    /\ NoFetch
    /\ NoTransaction
    /\ NoWatcher

\* The data in the files after a call of write_to_file: File::create makes
\* an empty part file, File::write adds the chunk to it.
Written(fs, some) ==
    [p \in fs |->
        (IF p \in files THEN contents[p] ELSE 0)
        + (IF p = make_part_path(writer.dest_path) /\ some THEN 1 ELSE 0)]

\* The data in the files after finish, discard_part or drop: fs::rename
\* moves the part file with its data, fs::remove_file removes it.
Moved(fs) ==
    [p \in fs |->
        IF p \in files THEN contents[p] ELSE contents[make_part_path(writer.dest_path)]]

\* writer.write_to_file(data); creating the part file or writing may fail.
FWWrite ==
    /\ ~dropped
    /\ Len(calls) < MaxCalls
    /\ \E create_ok, write_ok \in BOOLEAN :
          LET r == write_to_file(writer, files, create_ok, write_ok)
          IN  /\ writer' = r.writer
              /\ files' = r.files
              /\ calls' = Append(calls, [op |-> "write_to_file", ok |-> r.some])
              /\ contents' = Written(r.files, r.some)
    /\ UNCHANGED <<storeVars, txVars, cbVars, pc, downloader, single_sets_iter, multi_set, handles,
                   called, failed, dropped, fetchVars>>

\* writer.finish(); the rename may fail.
FWFinish ==
    /\ ~dropped
    /\ Len(calls) < MaxCalls
    /\ \E rename_ok \in BOOLEAN :
          LET r == finish(writer, files, rename_ok)
          IN  /\ writer' = r.writer
              /\ files' = r.files
              /\ calls' = Append(calls, [op |-> "finish", ok |-> r.ok])
              /\ contents' = Moved(r.files)
    /\ UNCHANGED <<storeVars, txVars, cbVars, pc, downloader, single_sets_iter, multi_set, handles,
                   called, failed, dropped, fetchVars>>

\* writer.discard_part()
FWDiscard ==
    /\ ~dropped
    /\ Len(calls) < MaxCalls
    /\ LET r == discard_part(writer, files)
       IN  /\ writer' = r.writer
           /\ files' = r.files
           /\ calls' = Append(calls, [op |-> "discard_part", ok |-> TRUE])
           /\ contents' = Moved(r.files)
    /\ UNCHANGED <<storeVars, txVars, cbVars, pc, downloader, single_sets_iter, multi_set, handles,
                   called, failed, dropped, fetchVars>>

\* drop(writer)
FWDrop ==
    /\ ~dropped
    /\ files' = FileWriter_drop(writer, files)
    /\ writer' = discard_part(writer, files).writer
    /\ dropped' = TRUE
    /\ contents' = Moved(FileWriter_drop(writer, files))
    /\ UNCHANGED <<storeVars, txVars, cbVars, pc, downloader, single_sets_iter, multi_set, handles,
                   called, failed, calls, fetchVars>>

NextFW ==
    \/ FWWrite
    \/ FWFinish
    \/ FWDiscard
    \/ FWDrop

SpecFW == InitFW /\ [][NextFW]_vars

\* C11 as stated: after the drop of a FileWriter its part file is not on the
\* disk, whatever calls were made on it and whatever they returned (when the
\* part file was renamed to the destination it is not there either).
C11_NoPartFileAfterDrop ==
    (pc = "idle" /\ dropped /\ writer.dest_path # <<>>)
        => make_part_path(writer.dest_path) \notin files

(***************************************************************************)
(* The store's properties, continued.                                      *)
(***************************************************************************)
\* A row of either table holds the status id with a photos-downloaded
\* timestamp.
Marked(tw, pr, s) ==
    \/ \E i \in 1..Len(tw) : tw[i].status_id = s /\ IsSome(tw[i].photos_downloaded_at)
    \/ \E r \in pr : r.status_id = s /\ IsSome(r.photos_downloaded_at)

\* The record ids of the photosets that select_not_downloaded_photos returns.
PendingIds(tw) ==
    LET r == select_not_downloaded_photos(tw)
    IN  {r.val[i].id_str : i \in 1..Len(r.val)}

\* C12: a record whose photos-downloaded timestamp was set keeps a
\* timestamp through every later insert_loose, insert_timeline, prune and
\* mark_downloaded, in tweets or in pruned_tweets, and while it has one no
\* row with its id is without timestamp and no photoset with its id is
\* returned by select_not_downloaded_photos.
C12_DownloadedNeverPendingAgain ==
    /\ [](\A s \in {u64_to_string(n) : n \in Ids} :
             Marked(tweets, pruned_tweets, s)
                => /\ s \notin PendingIds(tweets)
                   /\ \A i \in 1..Len(tweets) :
                         tweets[i].status_id = s => IsSome(tweets[i].photos_downloaded_at))
    /\ [][\A s \in {u64_to_string(n) : n \in Ids} :
             Marked(tweets, pruned_tweets, s) => Marked(tweets', pruned_tweets', s)]_vars

\* A record with a photo was downloaded at instant 1 and pruned at instant
\* 2, and an operation that found it stored followed; another record is
\* active.
C12_Witness ==
    /\ \E r \in pruned_tweets :
          /\ r.photos_downloaded_at = Some(1)
          /\ r.pruned_at = 2
          /\ r.in_timeline
          /\ IsSome(r.media)
          /\ \E i \in 1..Len(Unwrap(r.media).items) :
                Unwrap(r.media).items[i].type = Some("photo")
    /\ tweets # <<>>
    /\ select_not_downloaded_photos(tweets).ok
    /\ ret = 0

(***************************************************************************)
(* select_max_status_id on stores that hold status ids of any size.  The   *)
(* ids are given by their decimal digits, since an id may be as large as   *)
(* u64::MAX.                                                               *)
(***************************************************************************)
\* The status ids of these stores, in ascending numeric order: 9, 10, 2^63
\* and 2^64 - 1.  As text they are in another order.
WideIds ==
    << <<"9">>,
       <<"1", "0">>,
       <<"9", "2", "2", "3", "3", "7", "2", "0", "3", "6",
         "8", "5", "4", "7", "7", "5", "8", "0", "8">>,
       U64_MAX >>

\* Where a record of the feed is: nowhere, or in one of the tables, loose
\* or in-timeline, posted by one of two authors.
Placements ==
    {[table |-> "none", in_timeline |-> FALSE, user |-> 1]}
    \cup [table : {"tweets", "pruned_tweets"}, in_timeline : BOOLEAN, user : 1..2]

\* The row that insert_tweets makes of the tweet with the i-th id.
WideRow(i, p) ==
    [ id |-> i,
      status_id |-> WideIds[i],
      content |-> [ id_str |-> WideIds[i],
                    user   |-> [ id_str |-> u64_to_string(p.user),
                                 screen_name |-> UserOf(p.user).screen_name ],
                    media  |-> None ],
      in_timeline |-> p.in_timeline,
      recorded_at |-> 1,
      photos_downloaded_at |-> None ]

RECURSIVE WidePruned(_, _)
WidePruned(pl, i) ==
    IF i = 0 THEN {}
    ELSE IF pl[i].table = "pruned_tweets"
    THEN insert_stmt(WidePruned(pl, i - 1), PruneRow(WideRow(i, pl[i])), 1)
    ELSE WidePruned(pl, i - 1)

InitMax ==
    \E pl \in [1..Len(WideIds) -> Placements] :
       /\ feed = 0
       /\ tweets = [k \in 1..Cardinality({i \in 1..Len(WideIds) : pl[i].table = "tweets"}) |->
                       LET i == CHOOSE j \in 1..Len(WideIds) :
                                   /\ pl[j].table = "tweets"
                                   /\ Cardinality({h \in 1..j : pl[h].table = "tweets"}) = k
                       IN  WideRow(i, pl[i])]
       /\ pruned_tweets = WidePruned(pl, Len(WideIds))
       /\ now = 2
       /\ ret = None
       /\ pc = "idle"
       /\ downloader = [single_photo_photosets |-> <<>>, multi_photo_photosets |-> <<>>]
       /\ single_sets_iter = 0
       /\ multi_set = 1
       /\ handles = <<>>
       /\ files = {}
       /\ called = <<>>
       /\ failed = {}
       /\ NoFileWriter
       /\ NoFetch
       /\ NoTransaction
       /\ NoWatcher

\* The authors select_max_status_id is asked about: the two of the feed and
\* one without any record.
MaxUsers == 1..3

SelectMaxOf(user_id) ==
    /\ ret' = select_max_status_id(tweets, pruned_tweets, user_id)
    /\ UNCHANGED <<feed, tweets, pruned_tweets, now>>
    /\ UNCHANGED <<dlVars, fwVars, txVars, cbVars, fetchVars>>

SelectMax == \E user_id \in MaxUsers : SelectMaxOf(user_id)

NextMax == SelectMax

SpecMax == InitMax /\ [][NextMax]_vars

\* The places in WideIds of the in-timeline records, active or pruned, of
\* an author.
InTimelineOf(user_id) ==
    {i \in 1..Len(WideIds) :
        \/ \E k \in 1..Len(tweets) :
              /\ tweets[k].status_id = WideIds[i]
              /\ tweets[k].in_timeline
              /\ tweets[k].content.user.id_str = u64_to_string(user_id)
        \/ \E r \in pruned_tweets :
              /\ r.status_id = WideIds[i]
              /\ r.in_timeline
              /\ r.user_id = u64_to_string(user_id)}

\* C13: for every store and every author, select_max_status_id returns the
\* id that is numerically the largest (the last in the order of WideIds)
\* among the in-timeline records of the author, active or pruned, and None
\* when the author has none; loose records and records of other authors do
\* not count.
C13_MaxIsNumeric ==
    \A user_id \in MaxUsers :
       LET mine == InTimelineOf(user_id)
           r    == select_max_status_id(tweets, pruned_tweets, user_id)
       IN  IF mine = {} THEN r = None
           ELSE r = Some(WideIds[CHOOSE i \in mine : \A j \in mine : j <= i])

\* The author's in-timeline records are 9 (active) and 10 (pruned), 2^63 is
\* a loose record of the author and 2^64 - 1 an in-timeline record of the
\* other author: 10 was returned.
C13_Witness ==
    /\ ret = Some(WideIds[2])
    /\ InTimelineOf(1) = {1, 2}
    /\ InTimelineOf(2) = {4}
    /\ \E k \in 1..Len(tweets) : tweets[k].status_id = WideIds[1]
    /\ \E r \in pruned_tweets : r.status_id = WideIds[2]
    /\ \E k \in 1..Len(tweets) :
          /\ tweets[k].status_id = WideIds[3]
          /\ ~tweets[k].in_timeline
          /\ tweets[k].content.user.id_str = u64_to_string(1)

\* The URLs of the photo entries of a well-formed media, in payload order.
PhotoUrlsOf(content) ==
    LET photos == SelectSeq(Unwrap(content.media), LAMBDA m : m.type = Some("photo"))
    IN  [k \in 1..Len(photos) |-> Unwrap(photos[k].media_url_https)]

\* An active row that is to be downloaded: no photos-downloaded timestamp
\* and a photo entry in its media.
PendingRow(row) == ~IsSome(row.photos_downloaded_at) /\ HasPhotoEntry(row.content)

\* The result of select_not_downloaded_photos is Ok and holds, in rowid
\* order, one photoset for each pending row and no other, each with the row
\* identifier, author handle and record id of its row and the URLs of the
\* photo entries of the row in payload order.
PhotosetsAreThePendingRows ==
    LET r    == select_not_downloaded_photos(tweets)
        rows == SelectSeq(tweets, PendingRow)
    IN  /\ r.ok
        /\ Len(r.val) = Len(rows)
        /\ \A k \in 1..Len(rows) :
              /\ r.val[k].rowid = rows[k].id
              /\ r.val[k].screen_name = rows[k].content.user.screen_name
              /\ r.val[k].id_str = rows[k].status_id
              /\ r.val[k].photo_urls = PhotoUrlsOf(rows[k].content)

\* C14 as stated: in every reachable state select_not_downloaded_photos
\* returns one photoset for exactly each active record without
\* photos-downloaded timestamp whose media holds a photo entry, with the
\* photo URLs in payload order, and none for any other record.
C14_PendingPhotosets == PhotosetsAreThePendingRows

\* C15 as stated: in every reachable state select_not_downloaded_photos
\* returns Ok, skipping the rows whose media does not parse, and its result
\* holds the photoset of every other pending row.
C15_MalformedRowSkipped ==
    LET r == select_not_downloaded_photos(tweets)
    IN  /\ r.ok
        /\ \A i \in 1..Len(tweets) :
              (PendingRow(tweets[i]) /\ WellFormedMedia(tweets[i].content))
                  => \E k \in 1..Len(r.val) : r.val[k].rowid = tweets[i].id

\* What set_photos_downloaded_at makes of the current state, for every row
\* identifier: at most one row has the identifier; that row gets the
\* timestamp now and 1 is returned, or there is none, 0 is returned and the
\* table is as before; every other row is as before.
MarkTouchesOneRow ==
    \A rowid \in Rowids :
       LET r   == set_photos_downloaded_at(tweets, rowid, now)
           hit == {i \in 1..Len(tweets) : tweets[i].id = rowid}
       IN  /\ Cardinality(hit) <= 1
           /\ r.n = Cardinality(hit)
           /\ Len(r.tweets) = Len(tweets)
           /\ \A i \in 1..Len(tweets) :
                 IF i \in hit
                 THEN r.tweets[i] = [tweets[i] EXCEPT !.photos_downloaded_at = Some(now)]
                 ELSE r.tweets[i] = tweets[i]
           /\ hit = {} => r.tweets = tweets

\* C16: mark_downloaded(row_id) stamps the one active row with that row
\* identifier and reports 1, or reports 0 and changes nothing when there is
\* none; the other rows of tweets are as before, and the step leaves
\* pruned_tweets as it is.
C16_MarkDownloadedOneRow ==
    /\ []MarkTouchesOneRow
    /\ [][\A rowid \in Rowids :
             MarkDownloadedOf(rowid) => pruned_tweets' = pruned_tweets]_vars

\* One of two active rows was stamped at instant 2, the other has no
\* timestamp, a third record is pruned, and the last operation returned 1.
C16_Witness ==
    /\ ret = 1
    /\ now = 2
    /\ Len(tweets) = 2
    /\ \E i \in 1..Len(tweets) : tweets[i].photos_downloaded_at = Some(2)
    /\ \E i \in 1..Len(tweets) : ~IsSome(tweets[i].photos_downloaded_at)
    /\ pruned_tweets # {}
    /\ \A r \in pruned_tweets : r.pruned_at = 1
    /\ \A i \in 1..Len(tweets) : tweets[i].recorded_at = 1

(***************************************************************************)
(* The downloader's properties, continued.                                 *)
(***************************************************************************)
\* C17: while the single-photo loop runs, at most MAX_CONCURRENCY transfers
\* are in flight, before and after add_jobs; add_jobs starts the next queued
\* sets, in queue order, until MAX_CONCURRENCY transfers are in flight or
\* the queue is empty, so that after it min(MAX_CONCURRENCY, sets in flight
\* or queued) transfers are in flight; every transfer left in the Multi by
\* an iteration is still running.
C17_BoundedConcurrency ==
    pc = "single" =>
        LET a      == add_jobs(handles, single_sets_iter, SingleSets)
            queued == Len(SingleSets) - single_sets_iter
        IN  /\ Len(handles) <= MAX_CONCURRENCY
            /\ \A i \in 1..Len(handles) : handles[i].running
            /\ Len(a.handles) <= MAX_CONCURRENCY
            /\ Len(a.handles) = Min(MAX_CONCURRENCY, Len(handles) + queued)
            /\ SubSeq(a.handles, 1, Len(handles)) = handles
            /\ a.iter = single_sets_iter + (Len(a.handles) - Len(handles))
            /\ \A j \in 1..(Len(a.handles) - Len(handles)) :
                  a.handles[Len(handles) + j].photoset = SingleSets[single_sets_iter + j]

\* One of the first four transfers ended and the fifth set, queued until
\* then, was started in the following iteration: four are in flight.
C17_Witness ==
    /\ pc = "single"
    /\ Len(SingleSets) = 5
    /\ single_sets_iter = 5
    /\ Len(handles) = MAX_CONCURRENCY
    /\ handles[MAX_CONCURRENCY].photoset = SingleSets[5]
    /\ \E k \in 1..4 : SingleProcessed(k)

(***************************************************************************)
(* The fetch controller (recording/fetch.rs), its arguments                *)
(* (commands/record.rs) and the remote feed as the Timeline of             *)
(* egg_mode_ext.rs asks it.                                                *)
(***************************************************************************)
MAX_DEPTH == 20

\* The most records the remote feed returns for one request.
PageSize == 2

\* validate_depth: the --depth argument is a number and at most MAX_DEPTH.
validate_depth(depth) ==
    /\ IsSome(u64_from_str(depth))
    /\ Unwrap(u64_from_str(depth)) <= MAX_DEPTH

\* run_fetch: uses_since_id and depth, of the arguments.
uses_since_id_of(a) == ~a.all /\ ~IsSome(a.depth)

\* A faulty variant: one page more than the depth.
depth_of_one_more(a) ==
    IF IsSome(a.depth)
    THEN LET n == Unwrap(u64_from_str(Unwrap(a.depth)))
         IN  IF n = 0 THEN MAX_DEPTH + 1 ELSE n + 1
    ELSE MAX_DEPTH + 1

depth_of(a) ==
    IF IsSome(a.depth)
    THEN LET n == Unwrap(u64_from_str(Unwrap(a.depth)))
         IN  IF n = 0 THEN MAX_DEPTH ELSE n
    ELSE MAX_DEPTH

\* The prefixes that extract_screen_names strips, and the names of the model.
ScreenNamePrefixes == {"@", "https://twitter.com/", "https://mobile.twitter.com/"}
ScreenNames == {"alice", "bob"}

\* extract_screen_names: the name of each text that starts, after an
\* optional prefix, with a name; the other texts are left out.
extract_screen_names(texts) ==
    LET strip(text) == IF text # <<>> /\ text[1] \in ScreenNamePrefixes
                       THEN Tail(text) ELSE text
        named == SelectSeq(texts, LAMBDA text : strip(text) # <<>>
                                                /\ strip(text)[1] \in ScreenNames)
    IN  [i \in 1..Len(named) |-> <<strip(named[i])[1]>>]

\* The errors a request may end with: the two of egg_mode that concern one
\* author, and any other (a network error, a response that does not decode).
ErrorKinds == {"TwitterError", "BadStatus", "Other"}

\* A faulty variant: a bad HTTP status ends the run.
bail_on_bad_status(e) == e = "TwitterError"

\* print_non_fatal_error_or_bail: Ok(()) (TRUE) or Err(e) (FALSE).
print_non_fatal_error_or_bail(e) == e \in {"TwitterError", "BadStatus"}

\* The rate_limit_status.remaining of a response.
Remainings == {0, 100}

\* What a request may end with.
Outcomes ==
    [ok : {TRUE}, remaining : Remainings, error : {"none"}]
    \cup [ok : {FALSE}, remaining : {0}, error : ErrorKinds]

\* The answer of the remote feed to Timeline::request(since_id, max_id) on a
\* timeline (ids in descending order): the newest PageSize records with
\* since_id < id <= max_id.
request(ids, count, since, max) ==
    LET within == SelectSeq(ids, LAMBDA id :
                      /\ (IsSome(since) => id > Unwrap(since))
                      /\ (IsSome(max) => id <= Unwrap(max)))
    IN  [i \in 1..Min(count, Len(within)) |-> Tweet(0, within[i])]

\* A faulty variant: the bound of the older page lies too far below the
\* smallest id collected.
older_max_id_skipping(tl) == IF IsSome(tl.min_id) THEN Some(Unwrap(tl.min_id) - 3) ELSE None

\* Timeline::older: the max_id of the request for the next page.
older_max_id(tl) == IF IsSome(tl.min_id) THEN Some(Unwrap(tl.min_id) - 1) ELSE None

\* Timeline::map_ids
map_ids(resp) ==
    [ max_id |-> IF resp = <<>> THEN None ELSE Some(resp[1].id),
      min_id |-> IF resp = <<>> THEN None ELSE Some(resp[Len(resp)].id) ]

\* A faulty variant: no since_id is ever found.
find_since_id_never(page1, tw, pr, select_ok) == None

\* find_since_id: the largest in-timeline id of the author of the first
\* tweet of the page; select_ok tells whether select_max_status_id
\* succeeds, and its Err is taken as None (unwrap_or(None)).
find_since_id(page1, tw, pr, select_ok) ==
    IF page1 # <<>> /\ IsSome(page1[1].user)
    THEN LET max_id == IF select_ok
                       THEN select_max_status_id(tw, pr, Unwrap(page1[1].user).id)
                       ELSE None
         IN  IF IsSome(max_id) THEN Some(Unwrap(u64_from_str(Unwrap(max_id)))) ELSE None
    ELSE None

\* An entry of the log: what happened, for which author, at which page (0
\* for likes), and two values that depend on what happened.
LogEntry(kind, name, p, x, y) ==
    [kind |-> kind, screen_name |-> name, page |-> p, x |-> x, y |-> y]

(***************************************************************************)
(* A run of the record command, from run_fetch on.                         *)
(***************************************************************************)
\* A timeline of MAX_DEPTH + 1 records.
LongTimeline == [k \in 1..(MAX_DEPTH + 1) |-> 9 + 2 * (MAX_DEPTH + 1 - k)]

\* The remote feeds of the model: the timeline of each author, newest
\* first, the tweets each author likes, and how many tweets the server
\* puts in a page at most (a page holds up to the requested count).
Remotes ==
    { [ timeline |-> [alice |-> <<13, 11, 9>>, bob |-> <<12, 10>>],
        likes    |-> [alice |-> <<12, 9>>, bob |-> <<11>>],
        per_page |-> PageSize ],
      [ timeline |-> [alice |-> LongTimeline, bob |-> <<>>],
        likes    |-> [alice |-> <<>>, bob |-> <<10>>],
        per_page |-> 1 ] }

\* What an earlier run left in the store: the oldest synced records of
\* alice's timeline, and whether they were downloaded and pruned since.
Scenarios ==
    {sc \in [remote : Remotes, synced : {0, 1, 3, MAX_DEPTH - 1}, pruned : BOOLEAN] :
        /\ sc.synced <= Len(sc.remote.timeline.alice)
        /\ sc.pruned => sc.synced = 3}

SyncedStore(sc) ==
    LET tl     == sc.remote.timeline.alice
        synced == SubSeq(tl, Len(tl) - sc.synced + 1, Len(tl))
        r      == insert_timeline_tweets(<<>>, {}, BatchOf(0, synced), 1)
        marked == [i \in 1..Len(r.tweets) |->
                      set_photos_downloaded_at(r.tweets, r.tweets[i].id, 1).tweets[i]]
        p      == prune_tweets(marked, {}, 1)
    IN  IF sc.pruned
        THEN [tweets |-> p.tweets, pruned_tweets |-> p.pruned_tweets]
        ELSE [tweets |-> r.tweets, pruned_tweets |-> {}]

\* The --likes and --user lists of the model.
NamesArg == << <<"@", "alice">>, <<"https://twitter.com/", "bob">> >>

\* The --depth arguments of the model; "x" is not a number.
DepthArgs == {u64_to_string(n) : n \in {0, 1, 2, 3, MAX_DEPTH, MAX_DEPTH + 1}} \cup {<<"x">>}

\* --all and --depth exclude each other.
ArgsSet ==
    {a \in [ likes : {None, Some(NamesArg)}, user : {None, Some(NamesArg)},
             all : BOOLEAN, depth : {None} \cup {Some(d) : d \in DepthArgs} ] :
        ~(a.all /\ IsSome(a.depth))}

\* The runs of the model: the long timeline is fetched without --likes.
Runs ==
    {run \in [scenario : Scenarios, args : ArgsSet] :
        run.scenario.remote.per_page = 1 =>
            /\ run.args.likes = None
            /\ run.args.user # None
            /\ run.scenario.synced \in {0, MAX_DEPTH - 1}}

InitFetch ==
    \E run \in Runs : \E sc \in {run.scenario} : \E a \in {run.args} :
       /\ feed = 0
       /\ tweets = SyncedStore(sc).tweets
       /\ pruned_tweets = SyncedStore(sc).pruned_tweets
       /\ now = 2
       /\ ret = 0
       /\ pc = "idle"
       /\ downloader = [single_photo_photosets |-> <<>>, multi_photo_photosets |-> <<>>]
       /\ single_sets_iter = 0
       /\ multi_set = 1
       /\ handles = <<>>
       /\ files = {}
       /\ called = <<>>
       /\ failed = {}
       /\ NoFileWriter
       /\ NoTransaction
       /\ NoWatcher
       /\ args = a
       /\ remote = sc.remote
       /\ fetch_pc = "args"
       /\ screen_name_idx = 0
       /\ page = 0
       /\ user_timeline = [max_id |-> None, min_id |-> None]
       /\ fetched = <<>>
       /\ since_id = None
       /\ log = <<>>

LikesNames == IF IsSome(args.likes) THEN extract_screen_names(Unwrap(args.likes)) ELSE <<>>
UserNames == IF IsSome(args.user) THEN extract_screen_names(Unwrap(args.user)) ELSE <<>>

\* The loop variables of from_user at the start of an author.
NewUser ==
    /\ page' = 0
    /\ user_timeline' = [max_id |-> None, min_id |-> None]
    /\ fetched' = <<>>
    /\ since_id' = None

\* from_user after the authors: Ok(()).
NextUserOrDone ==
    /\ IF screen_name_idx < Len(UserNames)
       THEN fetch_pc' = "user" /\ screen_name_idx' = screen_name_idx + 1
       ELSE fetch_pc' = "done" /\ screen_name_idx' = 0
    /\ NewUser

\* run_fetch after from_likes: from_user, if there is a --user list.
FromUserOrDone ==
    /\ IF UserNames # <<>>
       THEN fetch_pc' = "user" /\ screen_name_idx' = 1
       ELSE fetch_pc' = "done" /\ screen_name_idx' = 0
    /\ NewUser

NextLikesOrFromUser ==
    IF screen_name_idx < Len(LikesNames)
    THEN fetch_pc' = "likes" /\ screen_name_idx' = screen_name_idx + 1 /\ NewUser
    ELSE FromUserOrDone

\* The arguments are validated, and run_fetch starts with the first list.
StartFetch ==
    /\ fetch_pc = "args"
    /\ IF IsSome(args.depth) /\ ~validate_depth(Unwrap(args.depth))
       THEN fetch_pc' = "rejected" /\ screen_name_idx' = 0 /\ NewUser
       ELSE IF LikesNames # <<>>
       THEN fetch_pc' = "likes" /\ screen_name_idx' = 1 /\ NewUser
       ELSE FromUserOrDone
    /\ UNCHANGED <<storeVars, dlVars, fwVars, txVars, cbVars, args, remote, log>>

\* What the store calls of one step do: whether select_max_status_id and
\* insert_loose_tweets or insert_timeline_tweets succeed.
DbOutcomes == [select : BOOLEAN, insert : BOOLEAN]

\* Err(e)? out of from_likes or from_user: the run ends with the error.
Bail ==
    /\ fetch_pc' = "failed"
    /\ screen_name_idx' = screen_name_idx
    /\ NewUser

\* from_likes, one author: the request, then insert_loose_tweets.
FetchLikes ==
    /\ fetch_pc = "likes"
    /\ \E o \in Outcomes : \E db \in DbOutcomes :
          LET screen_name == LikesNames[screen_name_idx]
              request_entry == LogEntry("request", screen_name, 0, None, None)
              response == BatchOf(0, remote.likes[screen_name[1]])
              r == insert_loose_tweets(tweets, pruned_tweets, response, now)
          IN  IF ~o.ok
              THEN /\ log' = log \o <<request_entry,
                                      LogEntry("error", screen_name, 0, o.error,
                                               ~print_non_fatal_error_or_bail(o.error))>>
                   /\ IF print_non_fatal_error_or_bail(o.error)
                      THEN NextLikesOrFromUser
                      ELSE Bail
                   /\ UNCHANGED storeVars
              ELSE IF ~db.insert
              THEN /\ log' = log \o <<request_entry,
                                      LogEntry("response", screen_name, 0,
                                               BatchIds(response), o.remaining),
                                      LogEntry("error", screen_name, 0, "Storage", TRUE)>>
                   /\ Bail
                   /\ UNCHANGED storeVars
              ELSE /\ tweets' = r.tweets
                   /\ pruned_tweets' = r.pruned_tweets
                   /\ ret' = r.inserted
                   /\ log' = log \o <<request_entry,
                                      LogEntry("response", screen_name, 0,
                                               BatchIds(response), o.remaining),
                                      LogEntry("recorded", screen_name, 0,
                                               <<Len(response), r.inserted>>, None)>>
                   /\ NextLikesOrFromUser
                   /\ UNCHANGED <<feed, now>>
    /\ UNCHANGED <<dlVars, fwVars, txVars, cbVars, args, remote>>

\* from_user after 'fetch_more: the report and insert_timeline_tweets,
\* whose Err ends the run; the transaction is then never committed.
RecordTimeline(screen_name, p, collected, since, entries, insert_ok) ==
    LET r == insert_timeline_tweets(tweets, pruned_tweets, collected, now)
    IN  IF insert_ok
        THEN /\ tweets' = r.tweets
             /\ pruned_tweets' = r.pruned_tweets
             /\ ret' = r.inserted
             /\ log' = log \o entries \o
                         <<LogEntry("recorded", screen_name, p,
                                    <<Len(collected), r.inserted>>, since)>>
             /\ NextUserOrDone
             /\ UNCHANGED <<feed, now>>
        ELSE /\ log' = log \o entries \o
                         <<LogEntry("error", screen_name, p, "Storage", TRUE)>>
             /\ Bail
             /\ UNCHANGED storeVars

\* An Err from timeline.start() or timeline.older(): reported and the next
\* author (continue 'each_user), or the end of the run.
RequestFailed(screen_name, p, error, request_entry) ==
    /\ log' = log \o <<request_entry,
                       LogEntry("error", screen_name, p, error,
                                ~print_non_fatal_error_or_bail(error))>>
    /\ IF print_non_fatal_error_or_bail(error)
       THEN NextUserOrDone
       ELSE Bail
    /\ UNCHANGED storeVars

\* .with_page_size(200): the count of a timeline request, and what the
\* server makes of it.
with_page_size == Min(PageSize, remote.per_page)

\* from_user, the first page of an author: timeline.start().
FetchPage1 ==
    /\ fetch_pc = "user"
    /\ page = 0
    /\ \E o \in Outcomes : \E db \in DbOutcomes :
          LET screen_name == UserNames[screen_name_idx]
              request_entry == LogEntry("request", screen_name, 1, None, None)
              response == request(remote.timeline[screen_name[1]], with_page_size, None, None)
              since == IF uses_since_id_of(args)
                       THEN find_since_id(response, tweets, pruned_tweets, db.select)
                       ELSE None
              \* the Err of select_max_status_id, which nothing reports
              unreported == IF uses_since_id_of(args) /\ response # <<>> /\ ~db.select
                            THEN <<LogEntry("unreported", screen_name, 1,
                                            "select_max_status_id", None)>>
                            ELSE <<>>
              entries == <<request_entry,
                           LogEntry("response", screen_name, 1,
                                    BatchIds(response), o.remaining)>> \o unreported
          IN  IF ~o.ok
              THEN RequestFailed(screen_name, 1, o.error, request_entry)
              ELSE IF \/ /\ IsSome(since)
                         /\ \A i \in 1..Len(response) : response[i].id <= Unwrap(since)
                      \/ depth_of(args) < 2
              THEN RecordTimeline(screen_name, 1, response, since, entries, db.insert)
              ELSE /\ page' = 1
                   /\ user_timeline' = map_ids(response)
                   /\ fetched' = response
                   /\ since_id' = since
                   /\ log' = log \o entries
                   /\ UNCHANGED <<storeVars, fetch_pc, screen_name_idx>>
    /\ UNCHANGED <<dlVars, fwVars, txVars, cbVars, args, remote>>

\* from_user, one turn of "for page in 2..=depth": timeline.older(since_id).
FetchOlder ==
    /\ fetch_pc = "user"
    /\ page >= 1
    /\ \E o \in Outcomes : \E db \in DbOutcomes :
          LET screen_name == UserNames[screen_name_idx]
              p == page + 1
              request_entry == LogEntry("request", screen_name, p, since_id,
                                        older_max_id(user_timeline))
              older_tweets == request(remote.timeline[screen_name[1]], with_page_size,
                                      since_id, older_max_id(user_timeline))
              older_tweets_len == Len(older_tweets)
              extended == fetched \o older_tweets
              entries == <<request_entry,
                           LogEntry("response", screen_name, p,
                                    BatchIds(older_tweets), o.remaining)>>
              \* reached_max_depth, as the turn before left it
              reached_before == p > 2 /\ p - 1 >= MAX_DEPTH
              reached_max_depth == p >= MAX_DEPTH
              Warning(reached) ==
                  IF reached THEN <<LogEntry("warning", screen_name, p, None, None)>>
                  ELSE <<>>
          IN  IF ~o.ok
              THEN RequestFailed(screen_name, p, o.error, request_entry)
              ELSE IF o.remaining = 0 /\ older_tweets_len # 0
              THEN /\ log' = log \o entries \o
                               <<LogEntry("error", screen_name, p, "RateLimit", TRUE)>>
                   /\ Bail
                   /\ UNCHANGED storeVars
              ELSE IF older_tweets_len = 0
              THEN RecordTimeline(screen_name, p, extended, since_id,
                                  entries \o Warning(reached_before), db.insert)
              ELSE IF p >= depth_of(args)
              THEN RecordTimeline(screen_name, p, extended, since_id,
                                  entries \o Warning(reached_max_depth), db.insert)
              ELSE /\ page' = p
                   /\ user_timeline' = map_ids(older_tweets)
                   /\ fetched' = extended
                   /\ log' = log \o entries
                   /\ UNCHANGED <<storeVars, fetch_pc, screen_name_idx, since_id>>
    /\ UNCHANGED <<dlVars, fwVars, txVars, cbVars, args, remote>>

NextFetch ==
    \/ StartFetch
    \/ FetchLikes
    \/ FetchPage1
    \/ FetchOlder

SpecFetch == InitFetch /\ [][NextFetch]_vars

(***************************************************************************)
(* What the log of a run tells.                                            *)
(***************************************************************************)
\* The authors of a run in the order run_fetch takes them: the --likes
\* list, then the --user list.
Authors ==
    [k \in 1..Len(LikesNames) |-> [phase |-> "likes", screen_name |-> LikesNames[k]]]
    \o [k \in 1..Len(UserNames) |-> [phase |-> "user", screen_name |-> UserNames[k]]]

\* The author an entry of the log is about.
AuthorOf(e) ==
    [phase |-> IF e.page = 0 THEN "likes" ELSE "user", screen_name |-> e.screen_name]

\* The place of an author in the authors of the run.
PlaceOf(authors, a) == CHOOSE k \in 1..Len(authors) : authors[k] = a

\* The place of the author the run is at; past the last one after Ok.
CurrentPlace(authors) ==
    IF fetch_pc = "likes" THEN screen_name_idx
    ELSE IF fetch_pc = "user" THEN Len(authors) - Len(UserNames) + screen_name_idx
    ELSE IF fetch_pc = "done" THEN Len(authors) + 1
    ELSE 0

PerAuthorErrors == {"TwitterError", "BadStatus"}

\* The entries of one kind about one author.
EntriesOf(kind, a) ==
    {i \in 1..Len(log) : log[i].kind = kind /\ AuthorOf(log[i]) = a}

\* The ids of the tweets the remote delivered for an author.
DeliveredIds(a) ==
    UNION {{log[i].x[j] : j \in 1..Len(log[i].x)} : i \in EntriesOf("response", a)}

AllStored(ids) ==
    LET seen == seen_tweets(tweets, pruned_tweets)
    IN  \A id \in ids : u64_to_string(id) \in seen

\* C18: a per-author error (Twitter error or bad status, on any page) is
\* reported as non-fatal and the run goes on with the next author, whose
\* request is the next thing that happens, or returns Ok after the last
\* author; any other error is fatal, ends the run and nothing is requested
\* after it; an author the run got past without an error has all delivered
\* tweets stored, and what was stored for an author stays stored.
C18_PerAuthorErrorIsolation ==
    LET authors == Authors
        current == CurrentPlace(authors)
    IN  /\ \A i \in 1..Len(log) :
              log[i].kind = "error" =>
                 IF log[i].x \in PerAuthorErrors
                 THEN /\ log[i].y = FALSE
                      /\ LET k == PlaceOf(authors, AuthorOf(log[i]))
                         IN  IF i = Len(log)
                             THEN current = k + 1
                             ELSE /\ k < Len(authors)
                                  /\ log[i + 1].kind = "request"
                                  /\ AuthorOf(log[i + 1]) = authors[k + 1]
                 ELSE /\ log[i].y = TRUE
                      /\ i = Len(log)
                      /\ fetch_pc = "failed"
        /\ \A k \in 1..Len(authors) :
              LET recorded == EntriesOf("recorded", authors[k]) # {}
                  past == \/ current > k
                          \/ log # <<>> /\ PlaceOf(authors, AuthorOf(log[Len(log)])) > k
              IN  /\ (past /\ EntriesOf("error", authors[k]) = {}) => recorded
                  /\ recorded => AllStored(DeliveredIds(authors[k]))

\* The first author's likes are recorded, a later author fails on a later
\* page with a per-author error, and the author after that one is fetched
\* and stored.
C18_Witness ==
    /\ fetch_pc = "done"
    /\ \E k1, k2, k3 \in 1..Len(Authors) :
          /\ k1 < k2 /\ k2 < k3
          /\ EntriesOf("recorded", Authors[k1]) # {}
          /\ DeliveredIds(Authors[k1]) # {}
          /\ \E i \in EntriesOf("error", Authors[k2]) :
                log[i].x \in PerAuthorErrors /\ log[i].page >= 2
          /\ EntriesOf("recorded", Authors[k3]) # {}
          /\ DeliveredIds(Authors[k3]) # {}
          /\ AllStored(DeliveredIds(Authors[k3]))

\* C19: after every page of a timeline, the first included, that holds at
\* least one tweet while the remaining counter is 0, the run ends with a
\* fatal error: nothing is requested after that page, for this author or a
\* later one.
C19_RateLimitAbortsAfterEveryPage ==
    \A i \in 1..Len(log) :
       (log[i].kind = "response" /\ log[i].page >= 1
            /\ log[i].x # <<>> /\ log[i].y = 0) =>
          /\ fetch_pc = "failed"
          /\ \A j \in (i + 1)..Len(log) : log[j].kind # "request"

\* The pages requested for an author of the --user list, in log order.
RequestedPages(screen_name) ==
    LET requests == SelectSeq(log, LAMBDA e :
                        e.kind = "request" /\ e.page >= 1 /\ e.screen_name = screen_name)
    IN  [i \in 1..Len(requests) |-> requests[i].page]

\* The depth as the caller gave it: a number, or None when it is absent or
\* not a number.
GivenDepth == IF IsSome(args.depth) THEN u64_from_str(Unwrap(args.depth)) ELSE None

\* C20: a depth above 20 (or one that is no number) is rejected before
\* anything is requested; otherwise, with D the given depth, 20 for a depth
\* of 0 and for an absent depth, the pages requested for one author of the
\* --user list are 1, 2, ..., n with n <= D, n >= 1 for every author that
\* from_user has taken up and left again, and n = 1 when D = 1.
C20_RequestsPerAuthorWithinDepth ==
    IF IsSome(args.depth) /\ (~IsSome(GivenDepth) \/ Unwrap(GivenDepth) > 20)
    THEN fetch_pc \in {"args", "rejected"} /\ log = <<>>
    ELSE LET D == IF ~IsSome(GivenDepth) THEN 20
                  ELSE IF Unwrap(GivenDepth) = 0 THEN 20
                  ELSE Unwrap(GivenDepth)
         IN  /\ fetch_pc # "rejected"
             /\ \A k \in 1..Len(UserNames) :
                   LET pages == RequestedPages(UserNames[k])
                       left  == \/ fetch_pc = "done"
                                \/ fetch_pc = "user" /\ screen_name_idx > k
                   IN  /\ \A i \in 1..Len(pages) : pages[i] = i
                       /\ Len(pages) <= D
                       /\ left => Len(pages) >= 1
                       /\ (left /\ D = 1) => Len(pages) = 1

\* A run with a depth of 0 has requested 20 pages for one author and has
\* gone on to the next author.
C20_Witness ==
    /\ args.depth = Some(<<"0">>)
    /\ fetch_pc = "user"
    /\ screen_name_idx = 2
    /\ Len(RequestedPages(UserNames[1])) = 20

(***************************************************************************)
(* The names of the downloaded files.                                      *)
(***************************************************************************)
\* The callback of commands/download.rs: the paths it prints for a photoset,
\* in order.
printed_paths(photoset) ==
    [index \in 1..Len(photoset.photo_urls) |->
        build_photo_path(photoset, photoset.photo_urls[index], index)]

\* Screen names (letters, digits and "_"), status ids, indexes and URLs
\* whose parts can be taken for one another.
PathScreenNames == {<<"a">>, <<"a", "1">>, <<"a", "_">>, <<"1">>}
PathIds == {u64_to_string(n) : n \in {1, 2, 11, 12}}
PathIndexes == 1..4
PathUrls == {Url("a.jpg"), Url("1-img1-a.jpg")}

PathInputs ==
    [screen_name : PathScreenNames, id_str : PathIds, index : PathIndexes, url : PathUrls]

PathOf(in) ==
    build_photo_path([screen_name |-> in.screen_name, id_str |-> in.id_str],
                     in.url, in.index)

\* The same input gives the same path, of the form
\* "@{handle}-{id}-img{index}-{basename}", and inputs that differ in handle,
\* id or index give different paths.
PathsAreDistinct ==
    \A a, b \in PathInputs :
       /\ a = b => PathOf(a) = PathOf(b)
       /\ PathOf(a) = <<"@">> \o a.screen_name \o <<"-">> \o a.id_str \o <<"-img">>
                        \o u64_to_string(a.index) \o <<"-", a.url[Len(a.url)]>>
       /\ <<a.screen_name, a.id_str, a.index>> # <<b.screen_name, b.id_str, b.index>>
             => PathOf(a) # PathOf(b)

\* C21: build_photo_path gives the same path for the same input, and
\* different paths for inputs that differ in handle, id or index; and the
\* paths that the callback prints for a photoset are paths of files that the
\* downloader wrote.
C21_PathsDistinctAndPrintedAsWritten ==
    /\ PathsAreDistinct
    /\ \A set \in AllSets :
          called[set.rowid] >= 1 =>
             \A index \in 1..Len(set.photo_urls) : printed_paths(set)[index] \in files

(***************************************************************************)
(* What the calls made on one FileWriter tell.                             *)
(***************************************************************************)
\* The places in calls of the calls of one operation.
CallsOf(op) == {i \in 1..Len(calls) : calls[i].op = op}

FWPartPath == make_part_path(FWDestPath)

\* C22: a new FileWriter has neither its part file nor its destination on
\* the disk; the first write_to_file creates the part file (the destination
\* path with ".part" added) and not the destination; and as long as no
\* write_to_file was called, whatever finish, discard_part and drop were
\* called, neither file is on the disk and every finish returned Ok.
C22_PartFileOpenedLazily ==
    /\ (calls = <<>> /\ ~dropped) => (writer.file = "Unopened" /\ files = {})
    /\ CallsOf("write_to_file") = {} =>
          /\ files = {}
          /\ \A i \in CallsOf("finish") : calls[i].ok
    /\ (Len(calls) = 1 /\ calls[1] = [op |-> "write_to_file", ok |-> TRUE] /\ ~dropped) =>
          /\ files = {FWPartPath}
          /\ FWPartPath = FWDestPath \o <<".part">>

\* A writer that never got data was finished, then discarded, then dropped.
C22_Witness ==
    /\ dropped
    /\ Len(calls) = 2
    /\ calls[1] = [op |-> "finish", ok |-> TRUE]
    /\ calls[2].op = "discard_part"
    /\ files = {}

\* C23: the part file of a FileWriter is renamed to the destination or
\* deleted, once and not both: after the drop it is not on the disk, and
\* once it is gone it is never there again; a destination that finish put
\* in place is neither removed nor altered by a later call or by the drop;
\* and after discard_part a finish returns Ok (unless a write_to_file
\* failed, which makes every later finish fail) and no call creates the
\* destination.
C23_PartFileResolvedOnce ==
    /\ [](/\ dropped => FWPartPath \notin files
          /\ \A i \in CallsOf("discard_part") : \A j \in CallsOf("finish") :
                (i < j /\ \A k \in CallsOf("write_to_file") : calls[k].ok)
                   => calls[j].ok)
    /\ [][/\ (writer.file # "Unopened" /\ FWPartPath \notin files)
                => FWPartPath \notin files'
          /\ FWDestPath \in files
                => /\ FWDestPath \in files'
                   /\ contents'[FWDestPath] = contents[FWDestPath]
          /\ (CallsOf("discard_part") # {} /\ FWDestPath \notin files)
                => FWDestPath \notin files']_vars

\* write_to_file was called at the place i of calls on a writer that a
\* finish or a discard_part had closed.  A finish that returned Err without
\* closing the writer did so because a write had failed before.
WriteAfterClose(i) ==
    /\ i \in CallsOf("write_to_file")
    /\ \E h \in 1..(i - 1) : calls[h].op \in {"finish", "discard_part"}

\* C24: a write_to_file on a writer closed by finish or discard_part
\* returns None, and so does every later write_to_file, and every later
\* finish returns an error; the call creates no part file and leaves the
\* files on the disk, the finalized destination among them, with the data
\* they had.
C24_ClosedWriterRejectsData ==
    /\ [](\A i \in 1..Len(calls) :
             WriteAfterClose(i) =>
                /\ ~calls[i].ok
                /\ \A j \in (i + 1)..Len(calls) :
                      calls[j].op \in {"write_to_file", "finish"} => ~calls[j].ok)
    /\ [][(/\ calls' # calls
           /\ calls'[Len(calls')].op = "write_to_file"
           /\ \E h \in 1..Len(calls) : calls[h].op \in {"finish", "discard_part"})
             => /\ files' = files
                /\ contents' = contents
                /\ ~writer'.io_ok]_vars

\* A writer was finished with its destination in place, was then given more
\* data twice and was finished again: the destination holds what it held.
C24_Witness ==
    /\ Len(calls) = 4
    /\ calls[1] = [op |-> "write_to_file", ok |-> TRUE]
    /\ calls[2] = [op |-> "finish", ok |-> TRUE]
    /\ calls[3] = [op |-> "write_to_file", ok |-> FALSE]
    /\ calls[4] = [op |-> "finish", ok |-> FALSE]
    /\ files = {FWDestPath}
    /\ contents[FWDestPath] = 1

(***************************************************************************)
(* What the store holds of an author.                                      *)
(***************************************************************************)
\* The in-timeline status ids of an author, from both tables, as numbers.
InTimelineIdsOf(screen_name) ==
    {Unwrap(u64_from_str(tweets[i].status_id)) :
        i \in {j \in 1..Len(tweets) :
                  tweets[j].in_timeline
                  /\ tweets[j].content.user.screen_name = screen_name}}
    \cup {Unwrap(u64_from_str(r.status_id)) :
            r \in {q \in pruned_tweets : q.in_timeline /\ q.screen_name = screen_name}}

\* C25: when the fetch of an author ends with a per-author error on a page
\* k >= 2, the tweets of the pages 1..k-1 are stored, as timeline tweets,
\* before the run goes on.
C25_CollectedPagesStoredAfterError ==
    \A i \in 1..Len(log) :
       (log[i].kind = "error" /\ log[i].x \in PerAuthorErrors /\ log[i].page >= 2) =>
          DeliveredIds(AuthorOf(log[i])) \subseteq InTimelineIdsOf(log[i].screen_name)

\* The largest of a set of numbers; None for the empty set.
MaxOf(S) == IF S = {} THEN None ELSE Some(CHOOSE m \in S : \A n \in S : n <= m)

\* This step is the first page of an author: the request and its response
\* are the next two entries of the log.
FirstPageStep ==
    /\ fetch_pc = "user"
    /\ page = 0
    /\ Len(log') >= Len(log) + 2
    /\ log'[Len(log) + 2].kind = "response"

\* No store call of this step failed.
StoreWorks ==
    \A j \in (Len(log) + 1)..Len(log') :
       /\ log'[j].kind # "unreported"
       /\ ~(log'[j].kind = "error" /\ log'[j].x = "Storage")

\* C26: in incremental mode (neither --all nor --depth), when the author has
\* a largest in-timeline id M in the store and every id of a non-empty page 1
\* is <= M, then, the store working, the page is recorded in the same step,
\* without an error, and the run is past the author: page 1 is the one
\* request for the author.
C26_FullySyncedStopsAfterPage1 ==
    [][LET screen_name == UserNames[screen_name_idx]
           M == MaxOf(InTimelineIdsOf(screen_name))
           ids == log'[Len(log) + 2].x
       IN  (/\ FirstPageStep
            /\ StoreWorks
            /\ ~args.all /\ args.depth = None
            /\ IsSome(M)
            /\ ids # <<>>
            /\ \A j \in 1..Len(ids) : ids[j] <= Unwrap(M))
             => /\ Len(log') = Len(log) + 3
                /\ log'[Len(log) + 3].kind = "recorded"
                /\ log'[Len(log) + 3].y = M
                /\ fetch_pc' # "failed"
                /\ page' = 0
                /\ fetch_pc' = "user" => screen_name_idx' = screen_name_idx + 1]_vars

\* The first author had three tweets in the store, page 1 held two of them,
\* was the only page requested and added nothing; the run is at the second
\* author.
C26_Witness ==
    /\ fetch_pc = "user"
    /\ screen_name_idx = 2
    /\ RequestedPages(UserNames[1]) = <<1>>
    /\ \E i \in EntriesOf("recorded", [phase |-> "user", screen_name |-> UserNames[1]]) :
          /\ log[i].x = <<2, 0>>
          /\ log[i].y = Some(13)

\* C30: a failure of a store call of the fetch (select_max_status_id for the
\* since_id, insert_loose_tweets, insert_timeline_tweets) ends the run with
\* an error, and nothing is requested after it.
C30_StorageFailureIsFatal ==
    \A i \in 1..Len(log) :
       (\/ log[i].kind = "unreported"
        \/ log[i].kind = "error" /\ log[i].x = "Storage") =>
          /\ fetch_pc = "failed"
          /\ \A j \in (i + 1)..Len(log) : log[j].kind # "request"

\* The last page delivered: the ids of the last response in the log.
LastPage ==
    LET i == CHOOSE k \in 1..Len(log) :
                 /\ log[k].kind = "response"
                 /\ \A j \in (k + 1)..Len(log) : log[j].kind # "response"
    IN  log[i].x

\* The controller is about to request a further page for the author.
PagingForward == fetch_pc = "user" /\ page >= 1

\* C27: in incremental mode the controller requests a further page for an
\* author only if the last page (of the pages 2.., for the first clause)
\* held a tweet, and, when the store holds a largest in-timeline id M of the
\* author, only if the last page held an id above M.
C27_PagingStopsAtEndOrSynced ==
    (PagingForward /\ ~args.all /\ args.depth = None) =>
       LET M == MaxOf(InTimelineIdsOf(UserNames[screen_name_idx]))
       IN  /\ page >= 2 => LastPage # <<>>
           /\ (IsSome(M) /\ LastPage # <<>>) =>
                 \E j \in 1..Len(LastPage) : LastPage[j] > Unwrap(M)

\* The ids delivered for an author before the place i of the log.
DeliveredBefore(a, i) ==
    UNION {{log[k].x[j] : j \in 1..Len(log[k].x)} :
              k \in {h \in EntriesOf("response", a) : h < i}}

MinOf(S) == CHOOSE m \in S : \A n \in S : m <= n

\* C28: every request for a page >= 2 has as max_id the smallest id
\* delivered so far for the author, less one, so none is sent without an
\* upper bound; it has the since_id as lower bound (in incremental mode the
\* largest in-timeline id of the author in the store, when the store holds
\* one and could be read); and no id is delivered twice for one author.
C28_OlderPagesAreBounded ==
    /\ \A i \in 1..Len(log) :
          (log[i].kind = "request" /\ log[i].page >= 2) =>
             LET before == DeliveredBefore(AuthorOf(log[i]), i)
             IN  /\ before # {}
                 /\ log[i].y = Some(MinOf(before) - 1)
                 /\ \A k \in EntriesOf("request", AuthorOf(log[i])) :
                       log[k].page >= 2 => log[k].x = log[i].x
    /\ PagingForward =>
          LET a == [phase |-> "user", screen_name |-> UserNames[screen_name_idx]]
              M == MaxOf(InTimelineIdsOf(a.screen_name))
          IN  /\ since_id # None => (~args.all /\ args.depth = None /\ since_id = M)
              /\ (/\ ~args.all /\ args.depth = None /\ IsSome(M) /\ LastPage # <<>>
                  /\ \A i \in 1..Len(log) : log[i].kind # "unreported")
                    => since_id = M
              /\ \A i \in EntriesOf("request", a) : log[i].page >= 2 => log[i].x = since_id
    /\ \A k \in 1..Len(UserNames) :
          LET responses == EntriesOf("response", [phase |-> "user", screen_name |-> UserNames[k]])
          IN  \A i, j \in responses :
                 \A m \in 1..Len(log[i].x) : \A n \in 1..Len(log[j].x) :
                    (i # j \/ m # n) => log[i].x[m] # log[j].x[n]

\* The depth of the run: the given depth, 20 for 0 and for none.
DepthOfRun ==
    IF ~IsSome(GivenDepth) \/ Unwrap(GivenDepth) = 0 THEN 20 ELSE Unwrap(GivenDepth)

\* C29: when all D pages of an author were requested (D the depth of the
\* run, 2..20) and every one of them held a tweet, the warning is emitted
\* before the tweets are recorded and the tweets are stored (the run has
\* then gone on to the next author); an author whose paging ended on an
\* empty page gets no warning.
C29_WarningAtDepth ==
    \A k \in 1..Len(UserNames) :
       LET a == [phase |-> "user", screen_name |-> UserNames[k]]
           responses == EntriesOf("response", a)
           recorded == EntriesOf("recorded", a)
           warning == EntriesOf("warning", a)
       IN  /\ (/\ recorded # {}
               /\ DepthOfRun >= 2
               /\ Cardinality(responses) = DepthOfRun
               /\ \A i \in responses : log[i].x # <<>>)
                 => /\ warning # {}
                    /\ \A i \in warning : \A j \in recorded : i < j
                    /\ AllStored(DeliveredIds(a))
           /\ (\E i \in responses : log[i].x = <<>>) => warning = {}

(***************************************************************************)
(* The run of the downloader as a whole.                                   *)
(***************************************************************************)
\* The run has ended with every set taken up: no single-photo set is left in
\* the queue or in flight, and no multi-photo set is left.
EverySetProcessed ==
    /\ \A k \in 1..Len(SingleSets) : SingleProcessed(k)
    /\ \A k \in 1..Len(MultiSets) : MultiProcessed(k)

\* C31 as stated: an error of the transfer library in the scheduler loops
\* (adding a transfer, perform, wait, removing a handle) never makes start
\* return an error: the run goes on, and when it has ended it returned Ok
\* and every single-photo and multi-photo set was processed.
C31_LibraryErrorDoesNotAbort ==
    /\ pc # "failed"
    /\ pc \notin {"idle", "single", "multi"} => pc = "done" /\ EverySetProcessed

(***************************************************************************)
(* A write of the store statement by statement: insert_loose_tweets,       *)
(* insert_timeline_tweets or prune_tweets on a connection of its own, from  *)
(* BEGIN to COMMIT or to the statement that fails.  tweets and             *)
(* pruned_tweets are what the writing connection reads; another connection *)
(* reads the rollback point while the transaction is open.                 *)
(***************************************************************************)
\* A faulty variant: no BEGIN is executed, every statement commits at once.
begin_skipped(tw, pr) == None

\* BEGIN: from here on the connection can return to these tables.
begin_transaction(tw, pr) == Some([tweets |-> tw, pruned_tweets |-> pr])

\* The connection is closed with the transaction open (the Err went up to
\* main through every `?`): the tables return to the rollback point.
rollback(point, tw, pr) ==
    IF IsSome(point) THEN Unwrap(point) ELSE [tweets |-> tw, pruned_tweets |-> pr]

\* The statements of an operation that are known when it begins.
RECURSIVE UpdateStatements(_)
UpdateStatements(batch) ==
    IF batch = <<>> THEN <<>>
    ELSE << [kind |-> "update_tweet", arg |-> Head(batch)],
            [kind |-> "update_pruned_tweet", arg |-> Head(batch)] >>
         \o UpdateStatements(Tail(batch))

RECURSIVE PruneStatements(_)
PruneStatements(rows) ==
    IF rows = <<>> THEN <<>>
    ELSE (IF is_prunable_row(PruneRow(Head(rows)))
          THEN << [kind |-> "insert_pruned", arg |-> PruneRow(Head(rows))],
                  [kind |-> "delete", arg |-> PruneRow(Head(rows))] >>
          ELSE <<>>)
         \o PruneStatements(Tail(rows))

StatementsOf(op, batch, tw) ==
    IF op = "insert_loose_tweets" THEN <<[kind |-> "take_unseen_tweets", arg |-> None]>>
    ELSE IF op = "insert_timeline_tweets"
    THEN UpdateStatements(batch) \o <<[kind |-> "take_unseen_tweets", arg |-> None]>>
    ELSE PruneStatements(tw)

\* One statement on the tables the connection reads: the tables and the
\* statements to run afterwards, and the rows counted for the result.
execute(t, tw, pr, t_now) ==
    LET stmt == Head(t.todo)
        same == [tweets |-> tw, pruned_tweets |-> pr, todo |-> Tail(t.todo), changes |-> 0]
    IN  IF stmt.kind = "update_tweet"
        THEN [same EXCEPT !.tweets = update_tweet_stmt(tw, <<stmt.arg>>)]
        ELSE IF stmt.kind = "update_pruned_tweet"
        THEN [same EXCEPT !.pruned_tweets = update_pruned_tweet_stmt(pr, <<stmt.arg>>)]
        ELSE IF stmt.kind = "take_unseen_tweets"
        THEN LET unseen == select_unseen_status_ids_from(tw, pr, BatchIds(t.batch))
                 taken  == SelectSeq(t.batch, LAMBDA x : x.id \in unseen)
             IN  [same EXCEPT !.todo = [i \in 1..Len(taken) |->
                                           [kind |-> "insert", arg |-> taken[i]]]]
        ELSE IF stmt.kind = "insert"
        THEN LET r == InsertOrIgnoreTweet(tw, stmt.arg, t.op = "insert_timeline_tweets", t_now)
             IN  [same EXCEPT !.tweets = r.tweets, !.changes = r.changes]
        ELSE IF stmt.kind = "insert_pruned"
        THEN [same EXCEPT !.pruned_tweets = insert_stmt(pr, stmt.arg, t_now)]
        ELSE [same EXCEPT !.tweets = delete_stmt(tw, stmt.arg.status_id), !.changes = 1]

\* The stores a write starts from: up to MaxBatch records recorded before,
\* some of them with their photos downloaded, and perhaps pruned since.
TxStores ==
    { [ feed |-> shift,
        tables |-> LET r == insert_loose_tweets(<<>>, {}, BatchOf(shift, ids), 1)
                       m == IF marked
                            THEN set_photos_downloaded_at(r.tweets, 1, 1).tweets
                            ELSE r.tweets
                   IN  IF gc THEN prune_tweets(m, {}, 1)
                       ELSE [tweets |-> m, pruned_tweets |-> {}] ] :
        shift \in FeedShifts, ids \in BatchIdSeqs, marked \in BOOLEAN, gc \in BOOLEAN }

TxOperations == {"insert_loose_tweets", "insert_timeline_tweets", "prune_tweets"}

InitTx ==
    \E s \in TxStores :
       /\ feed = s.feed
       /\ tweets = s.tables.tweets
       /\ pruned_tweets = s.tables.pruned_tweets
       /\ now = 2
       /\ ret = 0
       /\ pc = "idle"
       /\ downloader = [single_photo_photosets |-> <<>>, multi_photo_photosets |-> <<>>]
       /\ single_sets_iter = 0
       /\ multi_set = 1
       /\ handles = <<>>
       /\ files = {}
       /\ called = <<>>
       /\ failed = {}
       /\ NoFileWriter
       /\ NoFetch
       /\ NoTransaction
       /\ NoWatcher

\* The operation is called and executes BEGIN.
TxBegin ==
    /\ txn.phase = "none"
    /\ \E op \in TxOperations :
       \E ids \in (IF op = "prune_tweets" THEN {<<>>} ELSE BatchIdSeqs) :
          txn' = [ phase |-> "open", op |-> op, batch |-> BatchOf(feed, ids),
                   todo |-> StatementsOf(op, BatchOf(feed, ids), tweets),
                   changes |-> 0,
                   point |-> begin_transaction(tweets, pruned_tweets) ]
    /\ UNCHANGED <<storeVars, dlVars, fwVars, cbVars, fetchVars>>

\* The next statement of the operation succeeds.
TxStatement ==
    /\ txn.phase = "open"
    /\ txn.todo # <<>>
    /\ LET r == execute(txn, tweets, pruned_tweets, now)
       IN  /\ tweets' = r.tweets
           /\ pruned_tweets' = r.pruned_tweets
           /\ txn' = [txn EXCEPT !.todo = r.todo, !.changes = @ + r.changes]
    /\ UNCHANGED <<feed, now, ret, dlVars, fwVars, cbVars, fetchVars>>

\* COMMIT succeeds and the operation returns Ok with its count.
TxCommit ==
    /\ txn.phase = "open"
    /\ txn.todo = <<>>
    /\ txn' = [txn EXCEPT !.phase = "committed", !.point = None]
    /\ ret' = txn.changes
    /\ UNCHANGED <<feed, tweets, pruned_tweets, now, dlVars, fwVars, cbVars, fetchVars>>

\* The result of a store operation that returned Err.
StorageError == 0 - 1

\* The next statement, or COMMIT, fails with a storage error: the operation
\* returns Err, and so does every caller up to main; the process ends and
\* its connection is closed with the transaction open.
TxFail ==
    /\ txn.phase = "open"
    /\ LET r == rollback(txn.point, tweets, pruned_tweets)
       IN  /\ tweets' = r.tweets
           /\ pruned_tweets' = r.pruned_tweets
    /\ txn' = [txn EXCEPT !.phase = "failed", !.point = None]
    /\ ret' = StorageError
    /\ UNCHANGED <<feed, now, dlVars, fwVars, cbVars, fetchVars>>

NextTx ==
    \/ TxBegin
    \/ TxStatement
    \/ TxCommit
    \/ TxFail

SpecTx == InitTx /\ [][NextTx]_vars

\* What a store operation on another connection reads.
Visible ==
    IF IsSome(txn.point) THEN Unwrap(txn.point)
    ELSE [tweets |-> tweets, pruned_tweets |-> pruned_tweets]

\* What the operation of the transaction makes of tables in one piece.
WholeOperation(t, tables) ==
    LET r == IF t.op = "insert_loose_tweets"
             THEN insert_loose_tweets(tables.tweets, tables.pruned_tweets, t.batch, now)
             ELSE IF t.op = "insert_timeline_tweets"
             THEN insert_timeline_tweets(tables.tweets, tables.pruned_tweets, t.batch, now)
             ELSE prune_tweets(tables.tweets, tables.pruned_tweets, now)
    IN  [ tables |-> [tweets |-> r.tweets, pruned_tweets |-> r.pruned_tweets],
          count  |-> IF t.op = "prune_tweets" THEN r.pruned ELSE r.inserted ]

\* C32: what other store operations read changes only when a write
\* operation commits, and then to the outcome of the whole operation with
\* its count returned; when a write operation fails after its BEGIN, the
\* tables are afterwards what they were before the call, for every reader.
C32_WritesAreAtomic ==
    [][ /\ Visible' # Visible
            => /\ txn.phase = "open" /\ txn'.phase = "committed"
               /\ Visible' = WholeOperation(txn, Visible).tables
               /\ ret' = WholeOperation(txn, Visible).count
        /\ txn'.phase = "failed"
            => /\ Visible' = Visible
               /\ tweets' = Visible.tweets
               /\ pruned_tweets' = Visible.pruned_tweets
               /\ ret' = StorageError ]_vars

\* A write failed after it had changed a row of tweets and a row of
\* pruned_tweets, and the tables are again what other readers saw meanwhile.
C32_Witness ==
    /\ txn.phase = "failed"
    /\ txn.op = "insert_timeline_tweets"
    /\ Len(txn.todo) = 1
    /\ txn.todo[1].kind = "insert"
    /\ \E r \in pruned_tweets : ~r.in_timeline /\ r.status_id \in StatusIds(BatchIds(txn.batch))

(***************************************************************************)
(* Inserting at or below an author's largest synced id.                    *)
(***************************************************************************)
AuthorIds == {UserOf(id).id : id \in Ids}

\* The largest synced id of an author as a number.
MaxSyncedOf(tw, pr, user_id) ==
    LET m == select_max_status_id(tw, pr, user_id)
    IN  IF IsSome(m) THEN u64_from_str(Unwrap(m)) ELSE None

\* The batches of records of one author with no id above m.
BatchesUpTo(user_id, m) ==
    {ids \in BatchIdSeqs :
        /\ ids # <<>>
        /\ \A i \in 1..Len(ids) : UserOf(ids[i]).id = user_id /\ ids[i] <= m}

\* C33 as stated: for an author whose largest in-timeline id is M, every
\* insert (loose or timeline) of a batch of the author's records with ids
\* at most M returns 0 and leaves the row count as it is.
C33_AsStated ==
    \A user_id \in AuthorIds :
       LET M == MaxSyncedOf(tweets, pruned_tweets, user_id)
       IN  IsSome(M) =>
              \A ids \in BatchesUpTo(user_id, Unwrap(M)) : \A timeline \in BOOLEAN :
                 LET r == InsertInto(tweets, pruned_tweets, BatchOf(feed, ids), timeline)
                 IN  /\ r.inserted = 0
                     /\ count_tweets(r.tweets) = count_tweets(tweets)

\* C33: for an author whose largest in-timeline id is M, an insert (loose or
\* timeline) of a batch of the author's records with ids at most M inserts
\* the ids of the batch that neither table holds, returns their number and
\* lets the row count grow by it: 0 and an unchanged row count when every
\* id of the batch is recorded already, as after a sync up to M; and the
\* author's largest in-timeline id is M afterwards.
C33_ReinsertingBelowMaxAddsNothing ==
    \A user_id \in AuthorIds :
       LET M == MaxSyncedOf(tweets, pruned_tweets, user_id)
       IN  IsSome(M) =>
              \A ids \in BatchesUpTo(user_id, Unwrap(M)) : \A timeline \in BOOLEAN :
                 LET r   == InsertInto(tweets, pruned_tweets, BatchOf(feed, ids), timeline)
                     new == StatusIds(ids) \ StoredIds
                 IN  /\ r.inserted = Cardinality(new)
                     /\ count_tweets(r.tweets) = count_tweets(tweets) + Cardinality(new)
                     /\ StatusIds(ids) \subseteq StoredIds
                           => r.inserted = 0 /\ count_tweets(r.tweets) = count_tweets(tweets)
                     /\ MaxSyncedOf(r.tweets, r.pruned_tweets, user_id) = M

\* The author's largest in-timeline id is 11, the author's record 9 is
\* recorded too and pruned, and the last insert returned 0.
C33_Witness ==
    /\ MaxSyncedOf(tweets, pruned_tweets, 1) = Some(11)
    /\ u64_to_string(9) \in PrunedIds
    /\ u64_to_string(11) \in ActiveIds
    /\ ret = 0

(***************************************************************************)
(* forget --gc on a store whose payloads were not all written from a       *)
(* decoded tweet: the media member of a payload may be a JSON number.      *)
(***************************************************************************)
\* A payload whose $.extended_entities.media is the JSON number 1.
ScalarMediaPayload(id, user) ==
    [ id_str |-> u64_to_string(id),
      user   |-> [id_str |-> u64_to_string(user.id), screen_name |-> user.screen_name],
      media  |-> None,
      media_scalar |-> 1 ]

\* The records of a store to collect: those of damaged carry the number.
GcBatchOf(shift, ids, damaged) ==
    [i \in 1..Len(ids) |->
        IF ids[i] \in damaged
        THEN [ id |-> ids[i], user |-> Some(UserOf(ids[i])),
               json |-> ScalarMediaPayload(ids[i], UserOf(ids[i])) ]
        ELSE Tweet(shift, ids[i])]

InitGc ==
    \E shift \in FeedShifts : \E ids \in BatchIdSeqs : \E damaged \in SUBSET Range(ids) :
       LET r == insert_loose_tweets(<<>>, {}, GcBatchOf(shift, ids, damaged), 1)
       IN  /\ feed = shift
           /\ tweets = r.tweets
           /\ pruned_tweets = {}
           /\ now = 1
           /\ ret = r.inserted
           /\ pc = "idle"
           /\ downloader = [single_photo_photosets |-> <<>>, multi_photo_photosets |-> <<>>]
           /\ single_sets_iter = 0
           /\ multi_set = 1
           /\ handles = <<>>
           /\ files = {}
           /\ called = <<>>
           /\ failed = {}
           /\ NoFileWriter
           /\ NoFetch
           /\ NoTransaction
           /\ NoWatcher

NextGc ==
    \/ Prune
    \/ MarkDownloaded
    \/ Tick

SpecGc == InitGc /\ [][NextGc]_vars

\* The media descriptor of a payload is not null and not an array of
\* entries with their type and URL.
MalformedMedia(content) == HasScalarMedia(content) \/ ~WellFormedMedia(content)

\* The media column of a row of pruned_tweets is malformed.
MalformedPruned(q) ==
    IsSome(q.media) /\ ~from_str_media(Unwrap(q.media)).ok

\* C34 as stated: in every state, prune() returns Ok; every record whose
\* media descriptor is malformed is in tweets afterwards as it was; every
\* other record that is prunable is moved, and their number is returned; and
\* pruned_tweets never holds a record with a malformed media descriptor.
C34_MalformedNeverPruned ==
    LET r      == prune_tweets(tweets, pruned_tweets, now)
        others == {i \in 1..Len(tweets) :
                      /\ ~MalformedMedia(tweets[i].content)
                      /\ PrunableAsWorded(tweets[i])}
    IN  /\ ~r.panicked
        /\ \A i \in 1..Len(tweets) :
              MalformedMedia(tweets[i].content)
                  => \E j \in 1..Len(r.tweets) : r.tweets[j] = tweets[i]
        /\ \A i \in others :
              /\ \A j \in 1..Len(r.tweets) : r.tweets[j].status_id # tweets[i].status_id
              /\ \E q \in r.pruned_tweets : q.status_id = tweets[i].status_id
        /\ r.pruned = Cardinality(others)
        /\ \A q \in pruned_tweets : ~MalformedPruned(q)

(***************************************************************************)
(* The order of the transfers of a run.                                    *)
(***************************************************************************)
\* Nothing shows that a transfer of the set was ever started: no handle, no
\* file, no callback, no failure.
Untouched(set) ==
    /\ \A i \in 1..Len(handles) : handles[i].photoset # set
    /\ (DestPaths(set) \cup PartPaths(set)) \cap files = {}
    /\ called[set.rowid] = 0
    /\ set.rowid \notin failed

\* The transfers in flight are those of all the photos of the set, in order.
AllStartedTogether(set) ==
    /\ Len(handles) = Len(set.photo_urls)
    /\ \A j \in 1..Len(handles) :
          /\ handles[j].photoset = set
          /\ handles[j].writer.dest_path = build_photo_path(set, set.photo_urls[j], j)

\* C35: while the single-photo loop runs, only single-photo transfers are in
\* flight and no multi-photo set was touched; the multi-photo sets come
\* after every single-photo set was processed, one at a time: the transfers
\* in flight are those of the current set alone, all of its photos together,
\* every set before it has no transfer left, and no set after it was touched.
C35_MultiSetsOneAtATime ==
    /\ pc = "single" =>
          /\ \A i \in 1..Len(handles) : Len(handles[i].photoset.photo_urls) = 1
          /\ \A k \in 1..Len(MultiSets) : Untouched(MultiSets[k])
    /\ pc = "multi" =>
          /\ \A k \in 1..Len(SingleSets) : SingleProcessed(k)
          /\ handles # <<>> => AllStartedTogether(MultiSets[multi_set])
          /\ \A k \in 1..Len(MultiSets) :
                /\ k < multi_set
                      => \A i \in 1..Len(handles) : handles[i].photoset # MultiSets[k]
                /\ k > multi_set => Untouched(MultiSets[k])
    /\ pc = "done" => handles = <<>>

\* The second multi-photo set has its two transfers in flight, one of them
\* with its part file, after the first set was finalized and the
\* single-photo set downloaded.
C35_Witness ==
    /\ pc = "multi"
    /\ multi_set = 2
    /\ Len(handles) = 2
    /\ \E p \in PartPaths(MultiSets[2]) : p \in files
    /\ called[MultiSets[1].rowid] = 1
    /\ called[SingleSets[1].rowid] = 1

(***************************************************************************)
(* The end of the single-photo loop.  The loop takes its next turn after   *)
(* at most a second of Multi::wait, and every transfer comes to its end.   *)
(***************************************************************************)
\* A run of the download command on a store that takes the updates of the
\* callback, or that rejects them.
InitDLAnyStore == InitDLOf(BOOLEAN)

SpecDLAny == InitDLAnyStore /\ [][NextDL]_vars

\* The loop keeps taking turns while it has not ended: weak fairness of
\* SingleIteration, written out, since a turn that changes the state is
\* possible exactly while pc = "single".
SpecDLFair ==
    /\ InitDLAnyStore
    /\ [][NextDL]_vars
    /\ ([]<>(pc # "single") \/ []<><<SingleIteration>>_vars)

\* The single-photo sets that have a transfer in flight.
InFlight(hs) == {hs[i].photoset : i \in 1..Len(hs)}

\* The callback ran at most once for each single-photo set, and then the
\* set has no transfer in flight and has not failed, whether the callback
\* could mark the row or not; a set in flight was taken from the queue.
StartedOnceEach ==
    \A k \in 1..Len(SingleSets) :
       /\ called[SingleSets[k].rowid] <= 1
       /\ called[SingleSets[k].rowid] = 1
             => SingleProcessed(k) /\ SingleSets[k].rowid \notin failed
       /\ SingleSets[k] \in InFlight(handles) => k <= single_sets_iter

\* The loop has ended with nothing left: no transfer of a single-photo set
\* in flight, every set taken from the queue, each one completed or failed.
NothingLeft ==
    /\ InFlight(handles) \cap Range(SingleSets) = {}
    /\ single_sets_iter = Len(SingleSets)
    /\ \A k \in 1..Len(SingleSets) : SingleProcessed(k)

\* C36 as stated: the callback runs at most once for a single-photo set and
\* a failure inside it starts no transfer again, and whenever the
\* single-photo loop has been left, no handle is in flight and no
\* single-photo set is left unstarted.
C36_AsStated ==
    pc # "idle" =>
       /\ StartedOnceEach
       /\ pc # "single" => NothingLeft

\* What holds of the loop: the same, for a loop that was left without an
\* error of the transfer library.
C36_WithoutLibraryError ==
    pc # "idle" =>
       /\ StartedOnceEach
       /\ pc \in {"multi", "done"} => NothingLeft

\* Under the fairness of the loop's turns, the loop is left.
C36_LoopEnds == <>(pc # "single")

\* The queue only moves forward, and a set that was started and has no
\* transfer in flight is never in flight again.
C36_NeverStartedAgain ==
    [][pc = "single" =>
          /\ single_sets_iter' >= single_sets_iter
          /\ \A k \in 1..Len(SingleSets) :
                /\ (k <= single_sets_iter /\ SingleSets[k] \notin InFlight(handles))
                      => SingleSets[k] \notin InFlight(handles')
                /\ called'[SingleSets[k].rowid] >= called[SingleSets[k].rowid]]_vars

\* The loop has ended on a store that rejected the updates: the callback
\* ran once for each of the five sets, no row is marked, every file is
\* there and no handle is left.
C36_Witness ==
    /\ pc = "done"
    /\ ~downloader.on_downloaded_photoset.db_writable
    /\ Len(SingleSets) = 5
    /\ handles = <<>>
    /\ \A k \in 1..5 :
          /\ called[SingleSets[k].rowid] = 1
          /\ ~IsSome(TimestampOf(SingleSets[k]))
          /\ DestPaths(SingleSets[k]) \subseteq files

(***************************************************************************)
(* The clipboard watcher: `phog record --watch`.  spawn_watcher starts a   *)
(* thread that polls the clipboard once a second and sends each change on  *)
(* a channel; the SIGINT handler sets the stop flag; from_clipboard_watcher *)
(* receives from the channel.  A text is the sequence of the status ids of *)
(* the tweet URLs in it; <<>> is a text without a tweet URL, the empty     *)
(* string included.                                                        *)
(***************************************************************************)
MaxCopies == 2

Texts == {<<>>, <<9>>, <<10>>}

\* The clipboard cannot be read.
Unreadable == <<0>>

\* clipboard::read, with the error replaced by the empty string.
read_or_empty(clipboard) == IF clipboard = Unreadable THEN <<>> ELSE clipboard

\* changes_iter.next(): the text of the clipboard when it differs from the
\* last one read.
changes_iter_next(clipboard, text) ==
    IF read_or_empty(clipboard) # text THEN Some(read_or_empty(clipboard)) ELSE None

\* tx.send(msg): the message joins the channel while the receiver lives;
\* after the receiver was dropped, send returns Err and expect panics.
send(w, msg) ==
    IF w.rx = "recv"
    THEN [w EXCEPT !.chan = Append(@, msg), !.sent = Append(@, msg)]
    ELSE [w EXCEPT !.thread = "panicked"]

RECURSIVE SortedIds(_)
SortedIds(S) ==
    IF S = {} THEN <<>>
    ELSE LET m == CHOOSE x \in S : \A y \in S : x <= y
         IN  <<m>> \o SortedIds(S \ {m})

\* record::with_string: the unseen ids among those of the text are fetched
\* and inserted as loose tweets; a text without tweet URL is done at once.
with_string(tw, pr, shift, text, api_ok, t) ==
    IF text = <<>>
    THEN [ok |-> TRUE, tweets |-> tw, inserted |-> 0]
    ELSE LET unseen_status_ids == SortedIds(select_unseen_status_ids_from(tw, pr, text))
         IN  IF ~api_ok
             THEN [ok |-> FALSE, tweets |-> tw, inserted |-> 0]
             ELSE LET r == insert_loose_tweets(tw, pr, BatchOf(shift, unseen_status_ids), t)
                  IN  [ok |-> TRUE, tweets |-> r.tweets, inserted |-> r.inserted]

InitWatch ==
    /\ feed \in FeedShifts
    /\ tweets = <<>>
    /\ pruned_tweets = {}
    /\ now = 1
    /\ ret = 0
    /\ pc = "idle"
    /\ downloader = [single_photo_photosets |-> <<>>, multi_photo_photosets |-> <<>>]
    /\ single_sets_iter = 0
    /\ multi_set = 1
    /\ handles = <<>>
    /\ files = {}
    /\ called = <<>>
    /\ failed = {}
    /\ NoFileWriter
    /\ NoFetch
    /\ NoTransaction
    /\ \E clipboard \in Texts \cup {Unreadable} :
          watch = [ clipboard |-> clipboard, text |-> <<>>, stopped |-> FALSE,
                    thread |-> "next", chan |-> <<>>, sent |-> <<>>, rx |-> "recv",
                    received |-> <<>>, recorded |-> <<>>, copies |-> 0 ]

WatchFrame ==
    /\ UNCHANGED <<feed, pruned_tweets, now>>
    /\ UNCHANGED <<dlVars, fwVars, txVars, fetchVars>>

\* The user copies another text, or the clipboard stops or starts being
\* readable.
Copy ==
    /\ watch.thread \in {"next", "check", "sleep"}
    /\ watch.copies < MaxCopies
    /\ \E clipboard \in (Texts \cup {Unreadable}) \ {watch.clipboard} :
          watch' = [watch EXCEPT !.clipboard = clipboard, !.copies = @ + 1]
    /\ UNCHANGED <<tweets, ret>>
    /\ WatchFrame

\* The SIGINT handler, while it is registered.
Interrupt ==
    /\ watch.thread \in {"next", "check", "sleep"}
    /\ ~watch.stopped
    /\ watch' = [watch EXCEPT !.stopped = TRUE]
    /\ UNCHANGED <<tweets, ret>>
    /\ WatchFrame

\* The first half of the thread's loop: a change of the clipboard is sent.
WatcherNext ==
    /\ watch.thread = "next"
    /\ LET change == changes_iter_next(watch.clipboard, watch.text)
           w == [watch EXCEPT !.thread = "check"]
       IN  watch' = IF IsSome(change)
                    THEN send([w EXCEPT !.text = Unwrap(change)], Some(Unwrap(change)))
                    ELSE w
    /\ UNCHANGED <<tweets, ret>>
    /\ WatchFrame

\* The second half: with the stop flag set the thread sends None and ends,
\* otherwise it sleeps for a second.
WatcherCheck ==
    /\ watch.thread = "check"
    /\ watch' = IF watch.stopped
                THEN send([watch EXCEPT !.thread = "exited"], None)
                ELSE [watch EXCEPT !.thread = "sleep"]
    /\ UNCHANGED <<tweets, ret>>
    /\ WatchFrame

WatcherWake ==
    /\ watch.thread = "sleep"
    /\ watch' = [watch EXCEPT !.thread = "next"]
    /\ UNCHANGED <<tweets, ret>>
    /\ WatchFrame

\* One turn of the loop of from_clipboard_watcher: recv, then with_string
\* for a text, or the end of the loop for None.
Recv ==
    /\ watch.rx = "recv"
    /\ watch.chan # <<>>
    /\ LET msg == Head(watch.chan)
           w == [watch EXCEPT !.chan = Tail(@), !.received = Append(@, msg)]
       IN  IF IsSome(msg)
           THEN \E api_ok \in BOOLEAN :
                   LET r == with_string(tweets, pruned_tweets, feed, Unwrap(msg), api_ok, now)
                   IN  /\ tweets' = r.tweets
                       /\ ret' = IF r.ok THEN r.inserted ELSE StorageError
                       /\ watch' = IF r.ok
                                   THEN [w EXCEPT !.recorded = Append(@, Unwrap(msg))]
                                   ELSE [w EXCEPT !.rx = "err"]
           ELSE /\ watch' = [w EXCEPT !.rx = "ok"]
                /\ UNCHANGED <<tweets, ret>>
    /\ WatchFrame

NextWatch ==
    \/ Copy
    \/ Interrupt
    \/ WatcherNext
    \/ WatcherCheck
    \/ WatcherWake
    \/ Recv

SpecWatch == InitWatch /\ [][NextWatch]_vars

\* The texts among the messages of a sequence, in order.
TextsOf(msgs) == SelectSeq(msgs, LAMBDA m : IsSome(m))

\* How many of the messages are None.
NoneCount(msgs) == Len(msgs) - Len(TextsOf(msgs))

\* What holds of the watcher thread: None is sent at most once, as the last
\* message, and only with the stop flag set; a thread that has ended sent it.
C37_WatcherSendsNoneLast ==
    /\ NoneCount(watch.sent) <= 1
    /\ \A i \in 1..Len(watch.sent) : watch.sent[i] = None => i = Len(watch.sent) /\ watch.stopped
    /\ watch.thread = "exited" => NoneCount(watch.sent) = 1

\* C37 as stated: None is sent at most once and no text after it, a watcher
\* thread that has ended has sent it, and the consuming loop never ends
\* otherwise than with Ok, after it has recorded every text it received.
C37_AsStated ==
    /\ C37_WatcherSendsNoneLast
    /\ watch.rx # "err"
    /\ watch.thread # "panicked"
    /\ watch.rx = "ok" =>
          /\ watch.recorded = [i \in 1..Len(watch.sent) - 1 |-> Unwrap(watch.sent[i])]
          /\ watch.chan = <<>>

\* What holds of the consuming loop: it has recorded every text it received
\* but, when it ended with an error, the last one; it ends with Ok exactly
\* on None, and then it has recorded every text that was sent.
C37_RecordsUntilError ==
    /\ C37_WatcherSendsNoneLast
    /\ watch.rx = "recv" => watch.recorded = [i \in 1..Len(watch.received) |-> Unwrap(watch.received[i])]
    /\ watch.rx = "err" =>
          /\ watch.received # <<>>
          /\ IsSome(watch.received[Len(watch.received)])
          /\ watch.recorded = [i \in 1..Len(watch.received) - 1 |-> Unwrap(watch.received[i])]
    /\ watch.rx = "ok" =>
          /\ watch.recorded = [i \in 1..Len(watch.sent) - 1 |-> Unwrap(watch.sent[i])]
          /\ watch.chan = <<>>
          /\ watch.thread = "exited"
    /\ watch.thread = "panicked" => watch.rx = "err"

\* The stop flag was set with a text on its way: the loop failed to record
\* it and ended with an error before it received None.
C37_ErrorBeforeNone ==
    /\ watch.stopped
    /\ watch.rx = "err"
    /\ watch.thread = "exited"
    /\ watch.chan = <<None>>

\* A clean shutdown: two texts recorded, then None.
C37_CleanShutdown ==
    /\ watch.rx = "ok"
    /\ Len(watch.recorded) = 2
    /\ Len(tweets) > 0

(***************************************************************************)
(* The largest synced id of an author over the store's operations.         *)
(***************************************************************************)
\* An absent maximum is below every id.
OptLeq(a, b) == ~IsSome(a) \/ (IsSome(b) /\ Unwrap(a) <= Unwrap(b))

\* C38: in every state of the store and for every author, insert_loose of
\* any batch, prune and mark_downloaded of any row leave the author's
\* largest synced id as it is, and insert_timeline of any batch leaves it
\* as it is or raises it; so it never decreases over a sequence of them.
C38_MaxSyncedNeverDecreases ==
    \A user_id \in AuthorIds :
       LET m == MaxSyncedOf(tweets, pruned_tweets, user_id)
           p == prune_tweets(tweets, pruned_tweets, now)
       IN  /\ \A ids \in BatchIdSeqs :
                 LET l == insert_loose_tweets(tweets, pruned_tweets, BatchOf(feed, ids), now)
                     t == insert_timeline_tweets(tweets, pruned_tweets, BatchOf(feed, ids), now)
                 IN  /\ MaxSyncedOf(l.tweets, l.pruned_tweets, user_id) = m
                     /\ OptLeq(m, MaxSyncedOf(t.tweets, t.pruned_tweets, user_id))
           /\ MaxSyncedOf(p.tweets, p.pruned_tweets, user_id) = m
           /\ \A rowid \in Rowids :
                 MaxSyncedOf(set_photos_downloaded_at(tweets, rowid, now).tweets,
                             pruned_tweets, user_id) = m

\* The largest synced id of an author belongs to a pruned record, a loose
\* record of the author with a larger id is stored, and insert_timeline of
\* that one would raise the author's largest synced id.
C38_Witness ==
    \E user_id \in AuthorIds :
       LET m == MaxSyncedOf(tweets, pruned_tweets, user_id)
       IN  /\ IsSome(m)
           /\ \E r \in pruned_tweets : r.in_timeline /\ r.status_id = u64_to_string(Unwrap(m))
           /\ \E i \in 1..Len(tweets) :
                 /\ ~tweets[i].in_timeline
                 /\ tweets[i].content.user.id_str = u64_to_string(user_id)
                 /\ IsSome(u64_from_str(tweets[i].status_id))
                 /\ Unwrap(u64_from_str(tweets[i].status_id)) > Unwrap(m)
                 /\ LET t == insert_timeline_tweets(tweets, pruned_tweets,
                                 BatchOf(feed, <<Unwrap(u64_from_str(tweets[i].status_id))>>), now)
                    IN  MaxSyncedOf(t.tweets, t.pruned_tweets, user_id)
                           = u64_from_str(tweets[i].status_id)

(***************************************************************************)
(* The gaps an incremental sync can leave.                                 *)
(***************************************************************************)
\* The entries of the log of one kind about the timeline of an author.
TimelineEntries(kind, screen_name) ==
    {k \in 1..Len(log) : /\ log[k].kind = kind
                         /\ log[k].page >= 1
                         /\ log[k].screen_name = screen_name}

\* The records of an author's feed above a since_id.
FeedAbove(screen_name, since) ==
    {id \in Range(remote.timeline[screen_name[1]]) : IsSome(since) => id > Unwrap(since)}

\* The last entry of the log is new and reports an error met while the
\* timeline of an author was fetched.
ErrorWhilePaging(l, l2) ==
    /\ Len(l2) > Len(l)
    /\ l2[Len(l2)].kind = "error"
    /\ l2[Len(l2)].page >= 1

\* C39: in an incremental run, once the timeline of an author was recorded
\* with a since_id, every record of the author's feed above that since_id
\* is in the store, or the warning was emitted for the author; and a step
\* that ends the fetch of an author's timeline with an error leaves both
\* tables, and so every author's largest synced id, as they were.
C39_NoSilentGap ==
    /\ [](uses_since_id_of(args) =>
             \A name \in Range(UserNames) :
                \A k \in TimelineEntries("recorded", name) :
                   \/ \A id \in FeedAbove(name, log[k].y) : u64_to_string(id) \in StoredIds
                   \/ TimelineEntries("warning", name) # {})
    /\ [][ErrorWhilePaging(log, log') =>
             /\ tweets' = tweets
             /\ pruned_tweets' = pruned_tweets]_vars

\* An incremental run recorded two new records of alice above the since_id
\* of her one synced record, after an empty second page and without a
\* warning.
C39_Witness ==
    /\ uses_since_id_of(args)
    /\ \E k \in TimelineEntries("recorded", <<"alice">>) :
          /\ log[k].y = Some(9)
          /\ log[k].page = 2
          /\ FeedAbove(<<"alice">>, log[k].y) = {11, 13}
          /\ {u64_to_string(11), u64_to_string(13)} \subseteq StoredIds
    /\ TimelineEntries("warning", <<"alice">>) = {}

\* A run that ended with an error at the second page of alice's timeline,
\* with the first page collected and nothing of it stored.
C39_ErrorReached ==
    /\ fetch_pc = "failed"
    /\ TimelineEntries("error", <<"alice">>) # {}
    /\ \E k \in TimelineEntries("response", <<"alice">>) : log[k].x # <<>>
    /\ u64_to_string(13) \notin StoredIds

\* The long timeline was fetched to its twentieth page in an incremental
\* run: a record of the feed is missing, and the warning was emitted.
C39_GapWithWarning ==
    /\ uses_since_id_of(args)
    /\ TimelineEntries("recorded", <<"alice">>) # {}
    /\ TimelineEntries("warning", <<"alice">>) # {}
    /\ \E id \in Range(remote.timeline.alice) : u64_to_string(id) \notin StoredIds

====
